---- MODULE Spec2Model ----
(***************************************************************************)
(* A model of the bookkeeping services of 213bot: ChatActivityService,     *)
(* CommandCooldownService, DailyVoteService, GoonStatsService and the      *)
(* scheduled jobs of handlers/dead_chat.py that drive them.                *)
(*                                                                         *)
(* Time.  An instant is a number of ticks since 2025-01-01T00:00 UTC; an   *)
(* hour has TicksPerHour ticks (the resolution of the model's clock).  An  *)
(* aware datetime is a record [instant, offset]: the instant it denotes    *)
(* and the UTC offset (in ticks) of the timezone it is expressed in.       *)
(***************************************************************************)
EXTENDS Integers, Sequences, FiniteSets, TLC

\* ---------------------------------------------------------------- bounds

\* Resolution of the clock: ticks per hour.
TicksPerHour == 2
\* Last instant the wall clock of the activity specification reaches.
MaxTime == 60
\* Largest inactivity threshold, in ticks, a service is constructed with.
MaxThreshold == 2
\* Last instant the wall clock of the cooldown specification reaches.
MaxCooldownTime == 3
\* Largest cooldown_hours argument.
MaxCooldownHours == 1
\* Largest number of keys the cooldown service holds a record for.
MaxRecords == 2
\* Largest number of entries recorded between two clears of the daily ledger.
MaxEntries == 2
\* Largest number of usages recorded between two clears of the monthly ledger.
MaxUsages == 3
\* Largest reaction count a lookup returns.
MaxReactions == 1
\* Last instant the wall clock of the scan specification reaches.
MaxScanTime == 16
\* The rate limiter's cooldown (cooldown_seconds), in ticks of its clock.
LimiterCooldown == 2
\* Last instant the wall clock of the rate limiter specification reaches.
MaxLimiterTime == 4
\* Number of distinct users that write in the chat of the tracker
\* specification: two more than the tracker keeps.
MaxTracked == 102
\* Number of ticks the clock advances in the specification of the scan job.
MaxJobTicks == 2
\* Largest max_retries argument of get_chat_members.
MaxRetries == 3

\* ------------------------------------------------------ program constants

HoursPerDay == 24
\* ZoneInfo("Europe/Moscow"): UTC+3, no daylight saving.
MskOffsetHours == 3
\* ChatActivityService.active_hours = (9, 21)
ActiveFrom == 9
ActiveTo == 21
\* user_tracker.MAX_RECENT_USERS
MAX_RECENT_USERS == 100
\* check_inactive_chats: for attempt in range(5)
PhotoAttempts == 5

\* An Optional value: None, or Some(x) holding x.
None == << >>
Some(x) == <<x>>
Get(o) == o[1]

\* Conversation ids (Telegram: groups are negative, private chats positive).
ChatIds == {-5, 7}

VARIABLES
    now,                 \* the wall clock: datetime.now(), as an instant
    last_activity,       \* ChatActivityService._last_activity: chat_id -> instant
    inactive_threshold,  \* ChatActivityService.inactive_threshold, in ticks
    dead_chat_sent_at,   \* history: chat_id -> instant of the last
                         \* mark_dead_chat_sent not followed by update_activity
    last_used,           \* CommandCooldownService._last_used: key -> datetime
    cd_call,             \* history: the last method called on the cooldown
                         \* service and, for mark_used, its arguments and
                         \* the instant its key held before the call

    entries_by_date,     \* DailyVoteService._entries_by_date
    vote_storage_dir,    \* DailyVoteService.storage_dir: Some(path) or None
    vote_files,          \* the files daily_vote_<date_key>.json on disk
    vote_log,            \* history: <<day, chat_id>> -> the record_entry calls
                         \* made for it since the day's key was last cleared
    vote_cleared,        \* history: the date keys cleared and not recorded
                         \* into since

    counts_by_month,     \* GoonStatsService._counts_by_month
    stats_storage_dir,   \* GoonStatsService.storage_dir: Some(path) or None
    stats_files,         \* the files goon_stats_<month_key>.json on disk
    stats_log,           \* history: <<month key, chat_id, user_id>> -> the
                         \* number of record_usage calls made for it since
                         \* the month key was last cleared
    stats_cleared,       \* history: the month keys cleared and not recorded
                         \* into since

    announce_log,        \* history: what the announcement job did in the
                         \* last step, per conversation it processed

    ledger_call,         \* history: the last thing done to a ledger under
                         \* the specification with storage faults: the
                         \* operation, its key and whether it raised

    inactive_chats,      \* history: Some(list get_inactive_chats returned)
                         \* when the last step was that call, else None

    last_request,        \* RateLimiter.last_request: user_id -> instant
    limiter_call,        \* history: the last call made to the rate limiter,
                         \* what it returned and the record its user had
                         \* before it

    recent_users,        \* UserTrackerMiddleware._recent_users: chat_id -> deque
    chat_data,           \* context.chat_data["recent_users"] of each chat
                         \* whose chat_data has that key
    tracker_call,        \* history: the update of the last track_user call
                         \* and whether it passed the early returns
    tracked_order,       \* history: per chat, the users track_user accepted,
                         \* each once, ordered by their latest accepted call

    roulette_call,       \* history: the last kill_random_command call: its
                         \* update, what it replied and whom it restricted

    scan_job,            \* the running check_inactive_chats coroutine: the
                         \* await it is suspended at, the conversations
                         \* still to visit (the first is the current one)
                         \* and the index of the photo attempt
    members_call,        \* the running TelegramClientService.get_chat_members
                         \* coroutine: its arguments, the await it is
                         \* suspended at, its locals (attempt, member_ids,
                         \* last_error), how it ended, and as history the
                         \* number of attempts it began
    announce_job,        \* the running announce_tyan_of_the_day coroutine:
                         \* its date key, the await it is suspended at, the
                         \* conversations still to visit, the entries of the
                         \* current one and the best so far; as history the
                         \* entries it scored and those its clear_date
                         \* removed
    event_loop,          \* the asyncio event loop as far as the ledgers are
                         \* concerned: the callback that is running (if
                         \* any) and, per callback, the ledger operation it
                         \* is in the middle of and the statement it is at
    scan_log             \* history of the scan job: of its current run the
                         \* list it computed, the notices sent, the calls of
                         \* mark_dead_chat_sent and the conversations whose
                         \* sends all failed; of all runs the photos sent

vars == <<now, last_activity, inactive_threshold, dead_chat_sent_at,
          last_used, cd_call,
          entries_by_date, vote_storage_dir, vote_files, vote_log, vote_cleared,
          counts_by_month, stats_storage_dir, stats_files, stats_log,
          stats_cleared, announce_log, ledger_call, inactive_chats,
          last_request, limiter_call,
          recent_users, chat_data, tracker_call, tracked_order, roulette_call,
          scan_job, members_call, announce_job, event_loop, scan_log>>

statsVars == <<counts_by_month, stats_storage_dir, stats_files, stats_log,
               stats_cleared>>

voteVars == <<entries_by_date, vote_storage_dir, vote_files, vote_log,
              vote_cleared>>

cooldownVars == <<last_used, cd_call>>

announceVars == <<announce_log>>

callVars == <<ledger_call>>

scanVars == <<inactive_chats>>

\* The variables of the components added after the ledgers.
limiterVars == <<last_request, limiter_call>>

trackerVars == <<recent_users, chat_data, tracker_call, tracked_order>>

rouletteVars == <<roulette_call>>

scanJobVars == <<scan_job, scan_log>>

jobVars == <<scanJobVars, members_call, announce_job, event_loop>>

laterVars == <<limiterVars, trackerVars, rouletteVars, jobVars>>

otherVars == <<scanVars, laterVars>>

activityVars == <<last_activity, inactive_threshold, dead_chat_sent_at>>

\* ------------------------------------------------------------------ time

DayTicks == HoursPerDay * TicksPerHour
MskOffset == MskOffsetHours * TicksPerHour

\* datetime.now(self.moscow_tz)
NowMsk == [instant |-> now, offset |-> MskOffset]

\* dt.hour: the hour field of the wall time of an aware datetime.
HourOf(dt) == ((dt.instant + dt.offset) \div TicksPerHour) % HoursPerDay

\* a - b for two aware datetimes, a timedelta in ticks.
Minus(a, b) == a.instant - b.instant

\* dt.astimezone(tz): the same instant, expressed at the offset of tz.
AsTimezoneKeepWall(dt, offset) ==
    [instant |-> dt.instant + dt.offset - offset, offset |-> offset]
AsTimezone(dt, offset) == [instant |-> dt.instant, offset |-> offset]

\* dt.isoformat(): the wall time to the full precision of the datetime,
\* followed by the UTC offset.
IsoFormatHours(dt) ==
    [wall |-> ((dt.instant + dt.offset) \div TicksPerHour) * TicksPerHour,
     offset |-> dt.offset]
IsoFormat(dt) == [wall |-> dt.instant + dt.offset, offset |-> dt.offset]

\* datetime.fromisoformat(s)
FromIsoFormat(s) == [instant |-> s.wall - s.offset, offset |-> s.offset]

\* The calendar, from 2025-01-01 on (365-day years).
EpochYear == 2025
DaysPerYear == 365
MonthLengths == <<31, 28, 31, 30, 31, 30, 31, 31, 30, 31, 30, 31>>
RECURSIVE MonthAndDay(_, _)
MonthAndDay(day_of_year, month) ==
    IF day_of_year < MonthLengths[month] THEN <<month, day_of_year + 1>>
    ELSE MonthAndDay(day_of_year - MonthLengths[month], month + 1)
\* The calendar date <<year, month, day>> of day number n (0 is 2025-01-01).
DateOfDay(n) ==
    LET md == MonthAndDay(n % DaysPerYear, 1)
    IN  <<EpochYear + (n \div DaysPerYear), md[1], md[2]>>
\* dt.date(): the calendar date of the wall time of dt.
DateOf(dt) == DateOfDay((dt.instant + dt.offset) \div DayTicks)

\* The passage of time between two readings of the clock.
Tick(limit) == /\ now < limit
               /\ now' = now + 1

\* --------------------------------------------------- ChatActivityService

\* ChatActivityService._is_active_hours
IsActiveHoursStrictStart(dt) == ActiveFrom < HourOf(dt) /\ HourOf(dt) < ActiveTo
IsActiveHoursClosedEnd(dt) == ActiveFrom <= HourOf(dt) /\ HourOf(dt) <= ActiveTo
IsActiveHours(dt) == ActiveFrom <= HourOf(dt) /\ HourOf(dt) < ActiveTo

\* ChatActivityService.is_chat_inactive
IsChatInactiveStrict(chat_id) ==
    IF chat_id \notin DOMAIN last_activity THEN FALSE
    ELSE IF ~IsActiveHours(NowMsk) THEN FALSE
    ELSE Minus(NowMsk, last_activity[chat_id]) > inactive_threshold
IsChatInactive(chat_id) ==
    IF chat_id \notin DOMAIN last_activity THEN FALSE
    ELSE IF ~IsActiveHours(NowMsk) THEN FALSE
    ELSE Minus(NowMsk, last_activity[chat_id]) >= inactive_threshold

\* The dict assignment d[k] = v.
Put(d, k, v) == (k :> v) @@ d

\* ChatActivityService.update_activity
UpdateActivity(chat_id) ==
    /\ last_activity' = Put(last_activity, chat_id, NowMsk)
    /\ dead_chat_sent_at' = [c \in DOMAIN dead_chat_sent_at \ {chat_id}
                                |-> dead_chat_sent_at[c]]
    /\ UNCHANGED <<now, inactive_threshold>>

\* ChatActivityService.mark_dead_chat_sent
NewActivityOnMarkOneShot(chat_id) ==
    IF chat_id \in DOMAIN last_activity THEN last_activity
    ELSE Put(last_activity, chat_id, NowMsk)
NewActivityOnMark(chat_id) == Put(last_activity, chat_id, NowMsk)

MarkDeadChatSent(chat_id) ==
    /\ last_activity' = NewActivityOnMark(chat_id)
    /\ dead_chat_sent_at' = Put(dead_chat_sent_at, chat_id, now)
    /\ UNCHANGED <<now, inactive_threshold>>

\* A set of ints as a list, in some order (here ascending).
RECURSIVE ListOf(_)
ListOf(S) ==
    IF S = {} THEN << >>
    ELSE LET first == CHOOSE x \in S : \A y \in S : x <= y
         IN  <<first>> \o ListOf(S \ {first})

\* ChatActivityService.get_inactive_chats: the returned list.
GetInactiveChatsAll == ListOf(DOMAIN last_activity)
GetInactiveChats ==
    ListOf({chat_id \in DOMAIN last_activity : IsChatInactive(chat_id)})

\* A call of get_inactive_chats.
CallGetInactiveChats ==
    /\ inactive_chats' = Some(GetInactiveChats)
    /\ UNCHANGED <<now, last_activity, inactive_threshold, dead_chat_sent_at>>

\* ChatActivityService.__init__
InitActivity ==
    /\ last_activity = << >>
    /\ inactive_threshold \in 1..MaxThreshold
    /\ dead_chat_sent_at = << >>

InitClock == now = 0

\* get_inactive_chats has not been called.
InitScan == inactive_chats = None

\* ------------------------------------------------------------ RateLimiter

\* RateLimiter.is_allowed: the returned bool.
IsAllowedStrict(user_id) ==
    \/ user_id \notin DOMAIN last_request
    \/ now - last_request[user_id] > LimiterCooldown
IsAllowed(user_id) ==
    \/ user_id \notin DOMAIN last_request
    \/ ~(now - last_request[user_id] < LimiterCooldown)

\* RateLimiter.is_allowed: last_request after the call.
LastRequestAfterIsAllowedAlways(user_id) == Put(last_request, user_id, now)
LastRequestAfterIsAllowed(user_id) ==
    IF IsAllowed(user_id) THEN Put(last_request, user_id, now)
    ELSE last_request

\* RateLimiter.get_remaining_cooldown: the returned duration.
RemainingCooldown(user_id) ==
    IF user_id \notin DOMAIN last_request THEN 0
    ELSE IF now - last_request[user_id] < LimiterCooldown
         THEN LimiterCooldown - (now - last_request[user_id])
    ELSE 0

\* RateLimiter.reset_user: last_request after the call.
LastRequestAfterResetKept(user_id) == last_request
LastRequestAfterReset(user_id) ==
    IF user_id \in DOMAIN last_request
    THEN [u \in DOMAIN last_request \ {user_id} |-> last_request[u]]
    ELSE last_request

\* The record of a user before a call, as an optional value.
RequestOf(user_id) ==
    IF user_id \in DOMAIN last_request THEN Some(last_request[user_id]) ELSE None

LimiterCall(op, user_id, result) ==
    limiter_call' = [op |-> op, user_id |-> user_id, result |-> result,
                     before |-> RequestOf(user_id)]

CallIsAllowed(user_id) ==
    /\ last_request' = LastRequestAfterIsAllowed(user_id)
    /\ LimiterCall("is_allowed", user_id, Some(IsAllowed(user_id)))
    /\ UNCHANGED now

CallGetRemaining(user_id) ==
    /\ LimiterCall("get_remaining_cooldown", user_id,
                   Some(RemainingCooldown(user_id)))
    /\ UNCHANGED <<now, last_request>>

CallResetUser(user_id) ==
    /\ last_request' = LastRequestAfterReset(user_id)
    /\ LimiterCall("reset_user", user_id, None)
    /\ UNCHANGED now

\* RateLimiter.__init__
InitLimiter ==
    /\ last_request = << >>
    /\ limiter_call = [op |-> "init", user_id |-> None, result |-> None,
                       before |-> None]

\* ------------------------------------------------ CommandCooldownService

\* A str is a sequence of characters.  str(n) of an int, in decimal.
DigitChar(d) == <<"0", "1", "2", "3", "4", "5", "6", "7", "8", "9">>[d + 1]
RECURSIVE Digits(_)
Digits(n) == IF n < 10 THEN <<DigitChar(n)>>
             ELSE Digits(n \div 10) \o <<DigitChar(n % 10)>>
Str(n) == IF n < 0 THEN <<"-">> \o Digits(-n) ELSE Digits(n)

\* Command names handed to the service: two plain ones, and one of the form
\* "<plain name>:<chat id>".
PlainCommands == {<<"k">>, <<"g">>}
Commands == PlainCommands \cup {<<"k", ":", "7">>}
\* The chat_id argument: a conversation id, or None for the global scope.
ChatArgs == {Some(c) : c \in ChatIds} \cup {None}
CooldownHours == 0..MaxCooldownHours

\* timedelta(hours=h), in ticks.
Hours(h) == h * TicksPerHour

\* CommandCooldownService._get_key
GetKey(command, chat_id) ==
    IF chat_id = None THEN command
    ELSE command \o <<":">> \o Str(Get(chat_id))

\* CommandCooldownService.can_execute: the returned tuple.
CanExecuteStrict(command, cooldown_hours, chat_id) ==
    LET key == GetKey(command, chat_id) IN
    IF key \notin DOMAIN last_used THEN [ok |-> TRUE, remaining |-> None]
    ELSE LET time_passed == Minus(NowMsk, last_used[key])
             cooldown == Hours(cooldown_hours) IN
         IF time_passed > cooldown THEN [ok |-> TRUE, remaining |-> None]
         ELSE [ok |-> FALSE, remaining |-> Some(cooldown - time_passed)]
CanExecute(command, cooldown_hours, chat_id) ==
    LET key == GetKey(command, chat_id) IN
    IF key \notin DOMAIN last_used THEN [ok |-> TRUE, remaining |-> None]
    ELSE LET time_passed == Minus(NowMsk, last_used[key])
             cooldown == Hours(cooldown_hours) IN
         IF time_passed >= cooldown THEN [ok |-> TRUE, remaining |-> None]
         ELSE [ok |-> FALSE, remaining |-> Some(cooldown - time_passed)]

\* CommandCooldownService.get_remaining_cooldown: the returned value.
GetRemainingCooldown(command, cooldown_hours, chat_id) ==
    CanExecute(command, cooldown_hours, chat_id).remaining

\* What a call of can_execute leaves in _last_used.
LastUsedAfterCanExecuteRecording(command, cooldown_hours, chat_id) ==
    IF CanExecute(command, cooldown_hours, chat_id).ok
    THEN Put(last_used, GetKey(command, chat_id), NowMsk)
    ELSE last_used
LastUsedAfterCanExecute(command, cooldown_hours, chat_id) == last_used

\* A call of can_execute.
CallCanExecute(command, cooldown_hours, chat_id) ==
    /\ last_used' = LastUsedAfterCanExecute(command, cooldown_hours, chat_id)
    /\ Cardinality(DOMAIN last_used') <= MaxRecords
    /\ cd_call' = [op |-> "can_execute", command |-> << >>, chat_id |-> None,
                   before |-> None]
    /\ UNCHANGED now

\* A call of get_remaining_cooldown, which calls can_execute.
CallGetRemainingCooldown(command, cooldown_hours, chat_id) ==
    /\ last_used' = LastUsedAfterCanExecute(command, cooldown_hours, chat_id)
    /\ Cardinality(DOMAIN last_used') <= MaxRecords
    /\ cd_call' = [op |-> "get_remaining_cooldown", command |-> << >>,
                   chat_id |-> None, before |-> None]
    /\ UNCHANGED now

\* CommandCooldownService.mark_used
LastUsedAfterMarkKeepFirst(command, chat_id) ==
    IF GetKey(command, chat_id) \in DOMAIN last_used THEN last_used
    ELSE Put(last_used, GetKey(command, chat_id), NowMsk)
LastUsedAfterMark(command, chat_id) ==
    Put(last_used, GetKey(command, chat_id), NowMsk)

MarkUsed(command, chat_id) ==
    /\ last_used' = LastUsedAfterMark(command, chat_id)
    /\ Cardinality(DOMAIN last_used') <= MaxRecords
    /\ cd_call' = [op |-> "mark_used", command |-> command, chat_id |-> chat_id,
                   before |-> IF GetKey(command, chat_id) \in DOMAIN last_used
                              THEN Some(last_used[GetKey(command, chat_id)].instant)
                              ELSE None]
    /\ UNCHANGED now

\* CommandCooldownService.__init__
InitCooldown ==
    /\ last_used = << >>
    /\ cd_call = [op |-> "init", command |-> << >>, chat_id |-> None,
                  before |-> None]

\* ------------------------------------------------------ DailyVoteService

\* int(s) of the decimal str of an int.
DigitValue(ch) == CHOOSE d \in 0..9 : DigitChar(d) = ch
RECURSIVE DigitsValue(_)
DigitsValue(s) ==
    IF Len(s) = 0 THEN 0
    ELSE DigitsValue(SubSeq(s, 1, Len(s) - 1)) * 10 + DigitValue(s[Len(s)])
ParseInt(s) == IF s[1] = "-" THEN -DigitsValue(Tail(s)) ELSE DigitsValue(s)

\* settings.STORAGE_PATH
StoragePath == "storage/"

\* DailyVoteService._date_key
DateKeyOfWall(dt) == DateOf(dt)
DateKey(dt) == DateOf(AsTimezone(dt, MskOffset))

\* del d[k]
Del(d, k) == [x \in DOMAIN d \ {k} |-> d[x]]

\* d.get(k, default)
GetOr(d, k, default) == IF k \in DOMAIN d THEN d[k] ELSE default

\* DailyVoteService._file_path: the date key names the file, when
\* persistence is on.
VoteFilePathAlways(date_key) == Some(date_key)
VoteFilePath(date_key) ==
    IF vote_storage_dir = None THEN None ELSE Some(date_key)

\* The entry one persisted record is parsed into, under its chat's key.
\* e.bad names the fields of the record whose text does not parse; a
\* sent_at that fromisoformat rejects is replaced by the current time.
LoadEntryAtLoadTime(chat_id, e) ==
    [chat_id |-> chat_id, message_id |-> e.message_id, file_id |-> e.file_id,
     sent_at |-> NowMsk]
LoadEntry(chat_id, e) ==
    [chat_id |-> chat_id,
     message_id |-> e.message_id,
     file_id |-> e.file_id,
     sent_at |-> AsTimezone(IF "sent_at" \in e.bad THEN NowMsk
                            ELSE FromIsoFormat(e.sent_at), MskOffset)]

\* int(e.get("message_id")) raises for some record of the document.
ParseRaises(doc) ==
    \E k \in DOMAIN doc : \E i \in 1..Len(doc[k]) : "message_id" \in doc[k][i].bad

\* The bucket parsed from a JSON document.
LoadBucket(doc) ==
    [chat_id \in {ParseInt(k) : k \in DOMAIN doc} |->
        LET k == CHOOSE k \in DOMAIN doc : ParseInt(k) = chat_id
        IN  [i \in 1..Len(doc[k]) |-> LoadEntry(chat_id, doc[k][i])]]

\* DailyVoteService._maybe_load_date: the cache after the call.  A file
\* that is not JSON, or a record that makes the parse raise, leaves the
\* cache as it is: the exception is caught and logged.
MaybeLoadDateAlways(mem, date_key) ==
    IF VoteFilePath(date_key) = None THEN mem
    ELSE IF date_key \notin DOMAIN vote_files THEN Del(mem, date_key)
    ELSE IF ~vote_files[date_key].valid THEN Del(mem, date_key)
    ELSE IF ParseRaises(vote_files[date_key].doc) THEN Del(mem, date_key)
    ELSE Put(mem, date_key, LoadBucket(vote_files[date_key].doc))
MaybeLoadDate(mem, date_key) ==
    IF date_key \in DOMAIN mem THEN mem
    ELSE IF VoteFilePath(date_key) = None \/ date_key \notin DOMAIN vote_files
         THEN mem
    ELSE IF ~vote_files[date_key].valid THEN mem
    ELSE IF ParseRaises(vote_files[date_key].doc) THEN mem
    ELSE Put(mem, date_key, LoadBucket(vote_files[date_key].doc))

\* The exception _maybe_load_date lets through to its caller: none, the
\* whole read and parse run inside try/except Exception.
LoadDateRaisesUncaught(date_key) ==
    /\ date_key \in DOMAIN vote_files
    /\ ~vote_files[date_key].valid \/ ParseRaises(vote_files[date_key].doc)
LoadDateRaises(date_key) == FALSE

\* The accesses _maybe_load_date makes to the storage directory: none for
\* a cached key or without a file path, else exists() and, for a file that
\* is there, open("r").
LoadDateIo(mem, date_key) ==
    IF date_key \in DOMAIN mem \/ VoteFilePath(date_key) = None THEN {}
    ELSE IF date_key \notin DOMAIN vote_files THEN {"exists"}
    ELSE {"exists", "read"}

\* The JSON object one entry is dumped as.
DumpEntry(entry) ==
    [chat_id |-> entry.chat_id,
     message_id |-> entry.message_id,
     file_id |-> entry.file_id,
     sent_at |-> IsoFormat(entry.sent_at),
     bad |-> {}]

\* The JSON document a bucket is dumped as.
DumpBucket(bucket) ==
    [k \in {Str(c) : c \in DOMAIN bucket} |->
        LET c == CHOOSE c \in DOMAIN bucket : Str(c) = k
        IN  [i \in 1..Len(bucket[c]) |-> DumpEntry(bucket[c][i])]]

\* DailyVoteService._save_date: the files after the call.
SaveDateNothing(mem, date_key) == vote_files
SaveDate(mem, date_key) ==
    IF VoteFilePath(date_key) = None THEN vote_files
    ELSE Put(vote_files, date_key,
             [valid |-> TRUE, doc |-> DumpBucket(GetOr(mem, date_key, << >>))])

\* The accesses _save_date makes to the storage directory.
SaveDateIo(date_key) ==
    IF VoteFilePath(date_key) = None THEN {} ELSE {"write"}

\* The cache after the in-memory part of record_entry: lazy load, then the
\* append to the bucket of the entry's date and chat.
AppendEntryReplacing(chat_id, message_id, file_id, sent_at) ==
    LET date_key == DateKey(sent_at)
        entry == [chat_id |-> chat_id, message_id |-> message_id,
                  file_id |-> file_id,
                  sent_at |-> AsTimezone(sent_at, MskOffset)]
        loaded == MaybeLoadDate(entries_by_date, date_key)
    IN  Put(loaded, date_key,
            Put(GetOr(loaded, date_key, << >>), chat_id, <<entry>>))
AppendEntry(chat_id, message_id, file_id, sent_at) ==
    LET date_key == DateKey(sent_at)
        entry == [chat_id |-> chat_id, message_id |-> message_id,
                  file_id |-> file_id,
                  sent_at |-> AsTimezone(sent_at, MskOffset)]
        loaded == MaybeLoadDate(entries_by_date, date_key)
        with_date == IF date_key \notin DOMAIN loaded
                     THEN Put(loaded, date_key, << >>) ELSE loaded
        with_chat == IF chat_id \notin DOMAIN with_date[date_key]
                     THEN Put(with_date, date_key,
                              Put(with_date[date_key], chat_id, << >>))
                     ELSE with_date
    IN  Put(with_chat, date_key,
            Put(with_chat[date_key], chat_id,
                Append(with_chat[date_key][chat_id], entry)))

\* The day number, in the business timezone, of an instant.
MskDay(instant) == (instant + MskOffset) \div DayTicks

\* DailyVoteService.record_entry
RecordEntry(chat_id, message_id, file_id, sent_at) ==
    LET date_key == DateKey(sent_at)
        mem == AppendEntry(chat_id, message_id, file_id, sent_at)
        at == <<MskDay(sent_at.instant), chat_id>>
    IN  /\ entries_by_date' = mem
        /\ vote_files' = SaveDate(mem, date_key)
        /\ vote_log' = Put(vote_log, at,
                           Append(GetOr(vote_log, at, << >>),
                                  [chat_id |-> chat_id, message_id |-> message_id,
                                   file_id |-> file_id, sent_at |-> sent_at]))
        /\ vote_cleared' = vote_cleared \ {date_key}
        /\ UNCHANGED <<now, vote_storage_dir>>

\* DailyVoteService.get_entries_for_date: the returned list.
EntriesForDate(date_key, chat_id) ==
    LET loaded == MaybeLoadDate(entries_by_date, date_key)
    IN  IF date_key \notin DOMAIN loaded THEN << >>
        ELSE GetOr(loaded[date_key], chat_id, << >>)

\* A call of get_entries_for_date.
GetEntriesForDate(date_key, chat_id) ==
    /\ entries_by_date' = MaybeLoadDate(entries_by_date, date_key)
    /\ UNCHANGED <<now, vote_storage_dir, vote_files, vote_log, vote_cleared>>

\* DailyVoteService.clear_date: the cache and the files after the call.
CacheAfterClearDate(date_key) ==
    IF date_key \in DOMAIN entries_by_date
    THEN Del(entries_by_date, date_key) ELSE entries_by_date
FilesAfterClearDateKept(date_key) == vote_files
FilesAfterClearDate(date_key) ==
    IF vote_storage_dir # None /\ date_key \in DOMAIN vote_files
    THEN Del(vote_files, date_key) ELSE vote_files

\* The accesses clear_date makes to the storage directory.
ClearDateIo(date_key) ==
    IF vote_storage_dir = None THEN {}
    ELSE IF date_key \in DOMAIN vote_files THEN {"exists", "delete"}
    ELSE {"exists"}

ClearDate(date_key) ==
    /\ entries_by_date' = CacheAfterClearDate(date_key)
    /\ vote_files' = FilesAfterClearDate(date_key)
    /\ vote_log' = [at \in {a \in DOMAIN vote_log : DateOfDay(a[1]) # date_key}
                      |-> vote_log[at]]
    /\ vote_cleared' = vote_cleared \cup {date_key}
    /\ UNCHANGED <<now, vote_storage_dir>>

\* DailyVoteService.__init__ of a process whose storage directory can be
\* created, over the files the previous process left.
NewVoteService ==
    /\ entries_by_date' = << >>
    /\ vote_storage_dir' = Some(StoragePath)

\* DailyVoteService.__init__ when mkdir raises: persistence is off.
NewVoteServiceNoDir ==
    /\ entries_by_date' = << >>
    /\ vote_storage_dir' = None

\* _save_date cut short after open("w") has truncated the file: what is on
\* disk is empty or the beginning of a JSON document.
TruncatedFile == [valid |-> FALSE, doc |-> << >>]
FilesAfterInterruptedSaveDate(date_key) ==
    IF VoteFilePath(date_key) = None THEN vote_files
    ELSE Put(vote_files, date_key, TruncatedFile)

\* The first process starts on an empty storage directory.
InitVote ==
    /\ entries_by_date = << >>
    /\ vote_storage_dir = Some(StoragePath)
    /\ vote_files = << >>
    /\ vote_log = << >>
    /\ vote_cleared = {}

\* ------------------------------------------------------ GoonStatsService

\* GoonStatsService._month_key: strftime("%Y-%m") in the business timezone.
MonthKeyOfWall(dt) == SubSeq(DateOf(dt), 1, 2)
MonthKey(dt) == SubSeq(DateOf(AsTimezone(dt, MskOffset)), 1, 2)

\* GoonStatsService._file_path
StatsFilePath(month_key) ==
    IF stats_storage_dir = None THEN None ELSE Some(month_key)

\* The bucket parsed from a JSON document {chat_id_str: {user_id_str: count}}.
LoadCounts(doc) ==
    [chat_id \in {ParseInt(k) : k \in DOMAIN doc} |->
        LET k == CHOOSE k \in DOMAIN doc : ParseInt(k) = chat_id
        IN  [user_id \in {ParseInt(u) : u \in DOMAIN doc[k]} |->
                doc[k][CHOOSE u \in DOMAIN doc[k] : ParseInt(u) = user_id]]]

\* The exception _maybe_load_month lets through to its caller: none.
LoadMonthRaises(month_key) == FALSE

\* GoonStatsService._maybe_load_month: the cache after the call.
MaybeLoadMonth(mem, month_key) ==
    IF month_key \in DOMAIN mem THEN mem
    ELSE IF StatsFilePath(month_key) = None \/ month_key \notin DOMAIN stats_files
         THEN mem
    ELSE IF ~stats_files[month_key].valid THEN mem
    ELSE Put(mem, month_key, LoadCounts(stats_files[month_key].doc))

\* The accesses _maybe_load_month makes to the storage directory.
LoadMonthIo(mem, month_key) ==
    IF month_key \in DOMAIN mem \/ StatsFilePath(month_key) = None THEN {}
    ELSE IF month_key \notin DOMAIN stats_files THEN {"exists"}
    ELSE {"exists", "read"}

\* The JSON document a month bucket is dumped as.
DumpCounts(bucket) ==
    [k \in {Str(c) : c \in DOMAIN bucket} |->
        LET c == CHOOSE c \in DOMAIN bucket : Str(c) = k
        IN  [u \in {Str(uid) : uid \in DOMAIN bucket[c]} |->
                bucket[c][CHOOSE uid \in DOMAIN bucket[c] : Str(uid) = u]]]

\* GoonStatsService._save_month: the files after the call.
SaveMonthNothing(mem, month_key) == stats_files
SaveMonth(mem, month_key) ==
    IF StatsFilePath(month_key) = None THEN stats_files
    ELSE Put(stats_files, month_key,
             [valid |-> TRUE, doc |-> DumpCounts(GetOr(mem, month_key, << >>))])

\* The accesses _save_month makes to the storage directory.
SaveMonthIo(month_key) ==
    IF StatsFilePath(month_key) = None THEN {} ELSE {"write"}

\* The cache after the in-memory part of record_usage.
CountUsageNoLoad(chat_id, user_id, dt) ==
    LET month_key == MonthKey(dt)
        per_user == GetOr(GetOr(counts_by_month, month_key, << >>),
                          chat_id, << >>)
    IN  Put(counts_by_month, month_key,
            Put(GetOr(counts_by_month, month_key, << >>), chat_id,
                Put(per_user, user_id, GetOr(per_user, user_id, 0) + 1)))
CountUsage(chat_id, user_id, dt) ==
    LET month_key == MonthKey(dt)
        loaded == MaybeLoadMonth(counts_by_month, month_key)
        with_month == IF month_key \notin DOMAIN loaded
                      THEN Put(loaded, month_key, << >>) ELSE loaded
        with_chat == IF chat_id \notin DOMAIN with_month[month_key]
                     THEN Put(with_month, month_key,
                              Put(with_month[month_key], chat_id, << >>))
                     ELSE with_month
        per_user == with_chat[month_key][chat_id]
    IN  Put(with_chat, month_key,
            Put(with_chat[month_key], chat_id,
                Put(per_user, user_id, GetOr(per_user, user_id, 0) + 1)))

\* The year and month, in the business timezone, of an instant.
MskMonth(instant) == SubSeq(DateOfDay(MskDay(instant)), 1, 2)

\* GoonStatsService.record_usage; when is Some(datetime) or None.
RecordUsage(chat_id, user_id, when) ==
    LET dt == IF when = None THEN NowMsk ELSE Get(when)
        month_key == MonthKey(dt)
        mem == CountUsage(chat_id, user_id, dt)
        at == <<MskMonth(dt.instant), chat_id, user_id>>
    IN  /\ counts_by_month' = mem
        /\ stats_files' = SaveMonth(mem, month_key)
        /\ stats_log' = Put(stats_log, at, GetOr(stats_log, at, 0) + 1)
        /\ stats_cleared' = stats_cleared \ {month_key}
        /\ UNCHANGED <<now, stats_storage_dir>>

\* sorted(per_chat.items(), key=lambda kv: (-kv[1], kv[0]))
RECURSIVE SortedItemsByUser(_)
SortedItemsByUser(per_chat) ==
    IF DOMAIN per_chat = {} THEN << >>
    ELSE LET first == CHOOSE u \in DOMAIN per_chat :
                         \A v \in DOMAIN per_chat : u <= v
         IN  <<[user_id |-> first, count |-> per_chat[first]]>>
                \o SortedItemsByUser(Del(per_chat, first))
RECURSIVE SortedItems(_)
SortedItems(per_chat) ==
    IF DOMAIN per_chat = {} THEN << >>
    ELSE LET first == CHOOSE u \in DOMAIN per_chat :
                         \A v \in DOMAIN per_chat :
                            \/ per_chat[u] > per_chat[v]
                            \/ per_chat[u] = per_chat[v] /\ u <= v
         IN  <<[user_id |-> first, count |-> per_chat[first]]>>
                \o SortedItems(Del(per_chat, first))

\* The slice s[:n].
SliceTo(s, n) ==
    IF n >= 0 THEN SubSeq(s, 1, IF n < Len(s) THEN n ELSE Len(s))
    ELSE SubSeq(s, 1, IF Len(s) + n > 0 THEN Len(s) + n ELSE 0)

\* GoonStatsService.get_top_for_month: the returned list.
TopForMonth(month_key, chat_id, top_n) ==
    LET loaded == MaybeLoadMonth(counts_by_month, month_key)
        per_chat == GetOr(GetOr(loaded, month_key, << >>), chat_id, << >>)
    IN  SliceTo(SortedItems(per_chat), top_n)

\* A call of get_top_for_month.
GetTopForMonth(month_key, chat_id) ==
    /\ counts_by_month' = MaybeLoadMonth(counts_by_month, month_key)
    /\ UNCHANGED <<now, stats_storage_dir, stats_files, stats_log, stats_cleared>>

\* GoonStatsService.clear_month: the cache and the files after the call.
CacheAfterClearMonthKept(month_key) == counts_by_month
CacheAfterClearMonth(month_key) ==
    IF month_key \in DOMAIN counts_by_month
    THEN Del(counts_by_month, month_key) ELSE counts_by_month
FilesAfterClearMonth(month_key) ==
    IF StatsFilePath(month_key) # None /\ month_key \in DOMAIN stats_files
    THEN Del(stats_files, month_key) ELSE stats_files

\* The accesses clear_month makes to the storage directory.
ClearMonthIo(month_key) ==
    IF StatsFilePath(month_key) = None THEN {}
    ELSE IF month_key \in DOMAIN stats_files THEN {"exists", "delete"}
    ELSE {"exists"}

ClearMonth(month_key) ==
    /\ counts_by_month' = CacheAfterClearMonth(month_key)
    /\ stats_files' = FilesAfterClearMonth(month_key)
    /\ stats_log' = [at \in {a \in DOMAIN stats_log : a[1] # month_key}
                       |-> stats_log[at]]
    /\ stats_cleared' = stats_cleared \cup {month_key}
    /\ UNCHANGED <<now, stats_storage_dir>>

\* GoonStatsService.__init__ of a process whose storage directory can be
\* created, over the files the previous process left.
NewStatsService ==
    /\ counts_by_month' = << >>
    /\ stats_storage_dir' = Some(StoragePath)

\* GoonStatsService.__init__ when mkdir raises: persistence is off.
NewStatsServiceNoDir ==
    /\ counts_by_month' = << >>
    /\ stats_storage_dir' = None

\* _save_month cut short after open("w") has truncated the file.
FilesAfterInterruptedSaveMonth(month_key) ==
    IF StatsFilePath(month_key) = None THEN stats_files
    ELSE Put(stats_files, month_key, TruncatedFile)

\* The first process starts on an empty storage directory.
InitStats ==
    /\ counts_by_month = << >>
    /\ stats_storage_dir = Some(StoragePath)
    /\ stats_files = << >>
    /\ stats_log = << >>
    /\ stats_cleared = {}

RECURSIVE SumOver(_, _)
\* The sum of f over the set of keys S.
SumOver(f, S) ==
    IF S = {} THEN 0
    ELSE LET x == CHOOSE x \in S : TRUE IN f[x] + SumOver(f, S \ {x})

\* ------------------------------------------- the daily announcement job
\* handlers/dead_chat.py: announce_tyan_of_the_day runs daily at 22:00 in
\* the business timezone.

JobHour == 22

\* DailyVoteService.get_chats_for_date: the conversations with entries.
ChatsForDateNoLoad(date_key) ==
    IF date_key \notin DOMAIN entries_by_date THEN {}
    ELSE DOMAIN entries_by_date[date_key]
ChatsForDate(date_key) ==
    LET loaded == MaybeLoadDate(entries_by_date, date_key)
    IN  IF date_key \notin DOMAIN loaded THEN {} ELSE DOMAIN loaded[date_key]

\* One call of telegram_client_service.get_message_reaction_total: the
\* reaction count of a message, an integer the chat platform supplies, or
\* None when the call raises.
ReactionTotals == {Some(n) : n \in 0..MaxReactions} \cup {None}

\* a < b for two aware datetimes: their instants are compared.  a <= b is
\* the comparison that also holds for equal instants.
NotAfter(a, b) == a.instant <= b.instant
Before(a, b) == a.instant < b.instant

\* best_entry = None, best_count = -1
NoBest == [entry |-> None, count |-> -1]

\* The condition under which an entry replaces the best so far.
TakesOverByCountOnly(best, entry, count) == count > best.count
TakesOver(best, entry, count) ==
    \/ count > best.count
    \/ /\ count = best.count
       /\ best.entry # None
       /\ Before(entry.sent_at, Get(best.entry).sent_at)

RECURSIVE SelectFrom(_, _, _, _)
\* The loop over the entries from position i on, totals[i] being the
\* outcome of the lookup for entry i.  A lookup that raises ends the loop:
\* the exception leaves the conversation's try block.
SelectFrom(entries, totals, i, best) ==
    IF i > Len(entries)
    THEN [raised |-> FALSE, entry |-> best.entry, count |-> best.count]
    ELSE IF totals[i] = None
    THEN [raised |-> TRUE, entry |-> None, count |-> -1]
    ELSE SelectFrom(entries, totals, i + 1,
                    IF TakesOver(best, entries[i], Get(totals[i]))
                    THEN [entry |-> Some(entries[i]), count |-> Get(totals[i])]
                    ELSE best)

\* The body of the loop over conversations for one conversation: the photo
\* sent, if any: Some([chat_id, entry, count]) or None.
AnnounceForChat(chat_id, entries, totals) ==
    IF entries = << >> THEN None
    ELSE LET best == SelectFrom(entries, totals, 1, NoBest)
         IN  IF best.raised \/ best.entry = None THEN None
             ELSE Some([chat_id |-> chat_id, entry |-> Get(best.entry),
                        count |-> best.count])

\* The number of lookups made before those of a conversation, when the
\* conversations are gone through in ascending order.
LookupsBefore(date_key, chat_id) ==
    LET earlier == {c \in ChatsForDate(date_key) : c < chat_id}
    IN  SumOver([c \in earlier |-> Len(EntriesForDate(date_key, c))], earlier)

\* _announce_tyan_for_date: what is done for each conversation with
\* entries, outcomes[k] being the outcome of the k-th lookup.
AnnounceTyanForDate(date_key, outcomes) ==
    [chat_id \in ChatsForDate(date_key) |->
        LET entries == EntriesForDate(date_key, chat_id)
            totals == [i \in 1..Len(entries) |->
                          outcomes[LookupsBefore(date_key, chat_id) + i]]
        IN  [entries |-> entries, totals |-> totals,
             sent |-> AnnounceForChat(chat_id, entries, totals)]]

\* announce_tyan_of_the_day: announce for today's date key, then clear it.
AnnounceTyanOfTheDay ==
    \E outcomes \in [1..MaxEntries -> ReactionTotals] :
        LET date_key == DateOf(NowMsk)
        IN  /\ announce_log' = AnnounceTyanForDate(date_key, outcomes)
            /\ ClearDate(date_key)

InitAnnounce == announce_log = << >>

\* --------------------------------------------------- UserTrackerMiddleware

\* The elements of a list.
Elements(list) == {list[i] : i \in DOMAIN list}

\* list[-n:] for n > 0: the last n elements, all of them when there are
\* fewer.  list[:n] is the other end.
FirstN(list, n) == IF Len(list) <= n THEN list ELSE SubSeq(list, 1, n)
LastN(list, n) ==
    IF Len(list) <= n THEN list
    ELSE SubSeq(list, Len(list) - n + 1, Len(list))

\* deque(maxlen=n).append(x): a full deque drops from its left end.
DequeAppend(d, x, maxlen) == LastN(Append(d, x), maxlen)

\* Chat.GROUP and Chat.SUPERGROUP, among the chat types.
GroupTypes == {"group", "supergroup"}

\* An update: its effective_chat and effective_user, each optional.
UpdateOf(chat_id, type, user_id, is_bot) ==
    [chat |-> Some([id |-> chat_id, type |-> type]),
     user |-> Some([id |-> user_id, is_bot |-> is_bot])]

\* track_user gets past its early returns.
Tracks(update) ==
    /\ update.chat # None /\ update.user # None
    /\ Get(update.chat).type \in GroupTypes
    /\ ~Get(update.user).is_bot

\* track_user: the tracker's own deque of the chat after the call.
TrackedDequeAlways(deque, user_id) ==
    DequeAppend(deque, user_id, MAX_RECENT_USERS)
TrackedDeque(deque, user_id) ==
    IF user_id \notin Elements(deque)
    THEN DequeAppend(deque, user_id, MAX_RECENT_USERS)
    ELSE deque

\* track_user: context.chat_data["recent_users"] after the call, from the
\* list the key held (the empty list when the key was absent).
TrackedList(list, user_id) ==
    IF user_id \notin Elements(list)
    THEN IF Len(Append(list, user_id)) > MAX_RECENT_USERS
         THEN LastN(Append(list, user_id), MAX_RECENT_USERS)
         ELSE Append(list, user_id)
    ELSE list

\* The users ordered by their latest accepted call, after one more.
Retracked(order, user_id) ==
    Append(SelectSeq(order, LAMBDA u : u # user_id), user_id)

\* UserTrackerMiddleware.track_user
TrackUser(update) ==
    /\ tracker_call' = [update |-> update, tracked |-> Tracks(update)]
    /\ IF Tracks(update)
       THEN LET chat_id == Get(update.chat).id
                user_id == Get(update.user).id IN
            /\ recent_users' =
                   Put(recent_users, chat_id,
                       TrackedDeque(GetOr(recent_users, chat_id, << >>),
                                    user_id))
            /\ chat_data' =
                   Put(chat_data, chat_id,
                       TrackedList(GetOr(chat_data, chat_id, << >>), user_id))
            /\ tracked_order' =
                   Put(tracked_order, chat_id,
                       Retracked(GetOr(tracked_order, chat_id, << >>),
                                 user_id))
       ELSE UNCHANGED <<recent_users, chat_data, tracked_order>>
    /\ UNCHANGED now

\* UserTrackerMiddleware.get_recent_users
GetRecentUsers(chat_id) == GetOr(recent_users, chat_id, << >>)

\* UserTrackerMiddleware.__init__, and the chat_data of every chat empty.
InitTracker ==
    /\ recent_users = << >>
    /\ chat_data = << >>
    /\ tracker_call = [update |-> [chat |-> None, user |-> None],
                       tracked |-> FALSE]
    /\ tracked_order = << >>

\* ------------------------------------------------- kill_random_command

\* The command name the handler hands to the cooldown service.
KillRandom == <<"k", "i", "l", "l", "_", "r", "a", "n", "d", "o", "m">>

\* context.bot.id
BotId == 99

\* ChatMember.ADMINISTRATOR and ChatMember.OWNER
AdminStatuses == {"administrator", "creator"}

\* What the handler ends with: the reply it sent, the member it restricted
\* (if any) and whether it called mark_used.
Outcome(reply, restricted, marked) ==
    [reply |-> reply, restricted |-> restricted, marked |-> marked]

\* The list without the administrators and the bot itself.
PotentialTargetsNotBot(list, admin_ids) ==
    SelectSeq(list, LAMBDA uid : uid # BotId)
PotentialTargets(list, admin_ids) ==
    SelectSeq(list, LAMBDA uid : uid \notin admin_ids /\ uid # BotId)

\* telegram_client_service.is_available(): whether the client session that
\* lists a chat's members can be used, as the environment has it.
IsAvailable(env) == env.available

\* The cooldown check of the handler: the tuple can_execute returns for the
\* chat's own key.  The other one asks for the key without a chat.
CooldownCheckGlobal(chat_id) == CanExecute(KillRandom, 1, None)
CooldownCheck(chat_id) == CanExecute(KillRandom, 1, Some(chat_id))

\* The handler rejects the call with the cooldown reply.  The other one lets
\* an administrator of the chat through.
OnCooldownUnlessAdmin(chat_id, is_admin) ==
    /\ ~is_admin
    /\ ~CooldownCheck(chat_id).ok /\ CooldownCheck(chat_id).remaining # None
OnCooldown(chat_id, is_admin) ==
    ~CooldownCheck(chat_id).ok /\ CooldownCheck(chat_id).remaining # None

\* mark_used is the last statement of the try block, after the reply that
\* names the victim: when that reply raises it is not reached.
MarkedThoughReplyRaisedToo == TRUE
MarkedThoughReplyRaised == FALSE

\* kill_random_command: the outcomes the call can have, one per member
\* random.choice can pick.  env is what Telegram and the client session
\* answer during the call: the bot's own membership, the administrators,
\* the member list or its failure (None), the member count or its failure
\* (None), whether restrict_member raises a TelegramError and whether the
\* reply that names the victim does.
KillRandomOutcomes(update, env) ==
    LET chat == Get(update.chat)
        user == Get(update.user)
        Roulette(potential_targets) ==
            IF Len(potential_targets) < 1
            THEN {Outcome("no_targets", None, FALSE)}
            ELSE {IF env.restrict_raises
                  THEN Outcome("telegram_error", None, FALSE)
                  ELSE IF env.reply_raises
                  THEN Outcome("telegram_error", Some(target_id),
                               MarkedThoughReplyRaised)
                  ELSE Outcome("victim", Some(target_id), TRUE) :
                  target_id \in Elements(potential_targets)}
        recent_users_of_chat == GetOr(chat_data, chat.id, << >>)
    IN
    IF chat.type \notin GroupTypes THEN {Outcome("group_only", None, FALSE)}
    ELSE IF OnCooldown(chat.id, user.id \in env.admin_ids)
    THEN {Outcome("cooldown", None, FALSE)}
    ELSE IF env.bot_status \notin AdminStatuses
    THEN {Outcome("bot_not_admin", None, FALSE)}
    ELSE IF ~env.can_restrict
    THEN {Outcome("bot_cannot_restrict", None, FALSE)}
    ELSE IF IsAvailable(env)
    THEN IF env.members = None
         THEN {Outcome("members_failed", None, FALSE)}
         ELSE Roulette(PotentialTargets(Get(env.members), env.admin_ids))
    ELSE IF env.member_count # None /\ Get(env.member_count) < 3
    THEN {Outcome("too_few_members", None, FALSE)}
    ELSE IF recent_users_of_chat = << >>
    THEN {Outcome("no_recent_users", None, FALSE)}
    ELSE Roulette(PotentialTargets(recent_users_of_chat, env.admin_ids))

\* The list the handler draws its targets from: all_members of the client
\* session when it is available, else the chat's recent users.
Candidates(update, env) ==
    IF IsAvailable(env) THEN Get(env.members)
    ELSE GetOr(chat_data, Get(update.chat).id, << >>)

\* The replies of a handler that came to filter its list of candidates.
RouletteReplies == {"no_targets", "victim", "telegram_error"}

\* kill_random_command
KillRandomCommand(update, env) ==
    \E outcome \in KillRandomOutcomes(update, env) :
        LET chat_id == Get(update.chat).id IN
        /\ roulette_call' =
              [update |-> update,
               is_admin |-> Get(update.user).id \in env.admin_ids,
               admin_ids |-> env.admin_ids,
               candidates |-> IF outcome.reply \in RouletteReplies
                              THEN Some(Candidates(update, env)) ELSE None,
               reply |-> outcome.reply,
               restricted |-> outcome.restricted]
        /\ last_used' = IF outcome.marked
                        THEN LastUsedAfterMark(KillRandom, Some(chat_id))
                        ELSE last_used
        /\ Cardinality(DOMAIN last_used') <= MaxRecords
        /\ cd_call' =
              IF outcome.reply = "group_only" THEN cd_call
              ELSE IF outcome.marked
              THEN [op |-> "mark_used", command |-> KillRandom,
                    chat_id |-> Some(chat_id),
                    before |-> IF GetKey(KillRandom, Some(chat_id))
                                     \in DOMAIN last_used
                               THEN Some(last_used[GetKey(KillRandom,
                                                   Some(chat_id))].instant)
                               ELSE None]
              ELSE [op |-> "can_execute", command |-> << >>,
                    chat_id |-> None, before |-> None]
        /\ UNCHANGED now

\* No command has been handled yet.
NoRouletteCall ==
    [update |-> [chat |-> None, user |-> None], is_admin |-> FALSE,
     admin_ids |-> {}, candidates |-> None, reply |-> "",
     restricted |-> None]
InitRoulette == roulette_call = NoRouletteCall

\* ------------------------------- TelegramClientService.get_chat_members

\* No call is in progress.
NoMembersCall ==
    [pc |-> "idle", max_retries |-> 0, exclude_bots |-> TRUE,
     exclude_deleted |-> TRUE, members |-> << >>, attempt |-> 0,
     position |-> 0, member_ids |-> << >>, last_error |-> None,
     outcome |-> None, attempts_made |-> 0]

Returned(value) == Some([kind |-> "return", error |-> "", value |-> value])
Raised(error) == Some([kind |-> "raise", error |-> error, value |-> << >>])

\* The call ended.
EndCall(call, outcome) == [call EXCEPT !.pc = "done", !.outcome = outcome]

\* The top of the loop body for the given value of attempt, or the
\* statement after the loop when range(max_retries) is exhausted.
LoopFrom(call, attempt) ==
    IF attempt < call.max_retries
    THEN [call EXCEPT !.pc = "connect", !.attempt = attempt,
                      !.attempts_made = @ + 1]
    ELSE EndCall(call, Raised("ConnectionError"))

\* continue in the FloodWait handler: the for statement takes the next
\* value of range(max_retries).
AfterFloodWaitSameAttempt(call) == LoopFrom(call, call.attempt)
AfterFloodWait(call) == LoopFrom(call, call.attempt + 1)

\* The handlers of a connection error and of an unexpected error: the
\* error is kept, then a backoff sleep unless this was the last attempt.
AfterError(call, error) ==
    IF call.attempt < call.max_retries - 1
    THEN [call EXCEPT !.pc = "backoff", !.last_error = Some(error)]
    ELSE LoopFrom([call EXCEPT !.last_error = Some(error)], call.attempt + 1)

\* What an except clause of the attempt does with an error.
Handle(call, error) ==
    IF error = "FloodWait" THEN [call EXCEPT !.pc = "flood_sleep"]
    ELSE IF error = "RPCError" THEN EndCall(call, Raised("RPCError"))
    ELSE AfterError(call, error)

\* The errors the client raises while the members are enumerated: FloodWait
\* is an RPCError, caught by the clause before it.
MemberErrors == {"FloodWait", "RPCError", "ConnectionError", "OSError", "Exception"}

\* The filters of the enumeration.
Skipped(call, member) ==
    \/ member.user = None
    \/ call.exclude_bots /\ Get(member.user).is_bot
    \/ call.exclude_deleted /\ Get(member.user).is_deleted

\* member_ids after the loop body ran for a member.
WithMemberKeepAll(call, member) == Append(call.member_ids, member)
WithMember(call, member) ==
    IF Skipped(call, member) THEN call.member_ids
    ELSE Append(call.member_ids, Get(member.user).id)

\* get_chat_members up to its first await.
GetChatMembers(initialized, max_retries, exclude_bots, exclude_deleted, members) ==
    /\ members_call.pc = "idle"
    /\ LET call == [NoMembersCall EXCEPT !.max_retries = max_retries,
                                         !.exclude_bots = exclude_bots,
                                         !.exclude_deleted = exclude_deleted,
                                         !.members = members]
       IN  members_call' = IF ~initialized THEN EndCall(call, Raised("ValueError"))
                           ELSE LoopFrom(call, 0)

\* await self._ensure_connected() returns.
EnsureConnectedReturnsKeeping(connected) ==
    /\ members_call.pc = "connect"
    /\ members_call' =
          IF connected
          THEN [members_call EXCEPT !.pc = "iterate", !.position = 0]
          ELSE Handle(members_call, "ConnectionError")
EnsureConnectedReturns(connected) ==
    /\ members_call.pc = "connect"
    /\ members_call' =
          IF connected
          THEN [members_call EXCEPT !.pc = "iterate", !.position = 0,
                                    !.member_ids = << >>]
          ELSE Handle(members_call, "ConnectionError")

\* The async iterator yields the next member, or is exhausted and the
\* list is returned.
NextMember ==
    /\ members_call.pc = "iterate"
    /\ members_call' =
          IF members_call.position < Len(members_call.members)
          THEN [members_call EXCEPT
                   !.position = @ + 1,
                   !.member_ids =
                       WithMember(members_call,
                                  members_call.members[members_call.position + 1])]
          ELSE EndCall(members_call, Returned(members_call.member_ids))

\* The async iterator raises.
EnumerationRaises(error) ==
    /\ members_call.pc = "iterate"
    /\ members_call' = Handle(members_call, error)

\* await asyncio.sleep(e.value) returns in the FloodWait handler.
FloodSleepReturns ==
    /\ members_call.pc = "flood_sleep"
    /\ members_call' = AfterFloodWait(members_call)

\* The backoff sleep and the reconnection (whose failure is only logged)
\* are over: the next attempt.
BackoffReturns ==
    /\ members_call.pc = "backoff"
    /\ members_call' = LoopFrom(members_call, members_call.attempt + 1)

\* The caller has the result; the service is ready for another call.
CallerResumes ==
    /\ members_call.pc = "done"
    /\ members_call' = NoMembersCall

\* ------------------------------------ the event loop and the ledgers

\* The callbacks of the event loop that write to the ledgers: the command
\* handlers and the jobs of the job queue.
Callbacks == {"handler", "job"}

\* No callback is running and none is inside a ledger operation.
IdleLoop == [running |-> None, ops |-> [t \in Callbacks |-> None]]

\* Whether the operation gives control back to the event loop after the
\* statement: record_usage, record_entry, clear_date and clear_month are
\* plain functions, without an await, and so are the methods they call.
AwaitsAfterLoad(op, stage) == stage = "load"
AwaitsAfter(op, stage) == FALSE

\* The callback both runs (or is resumed) and is at the stage of the
\* operation.
At(t, op, stage) ==
    /\ event_loop.ops[t] # None
    /\ Get(event_loop.ops[t]).op = op
    /\ Get(event_loop.ops[t]).stage = stage
    /\ event_loop.running \in {None, Some(t)}

\* The loop after callback t executed the statement of its stage.
Goes(t, next) ==
    LET call == Get(event_loop.ops[t])
    IN  IF next = "return"
        THEN [running |-> None, ops |-> [event_loop.ops EXCEPT ![t] = None]]
        ELSE [running |-> IF AwaitsAfter(call.op, call.stage) THEN None ELSE Some(t),
              ops |-> [event_loop.ops EXCEPT ![t] = Some([call EXCEPT !.stage = next])]]

\* The event loop, no callback running, runs callback t, which comes to
\* call the operation.
Calls(t, op, args) ==
    /\ event_loop.running = None
    /\ event_loop.ops[t] = None
    /\ event_loop' =
          [running |-> Some(t),
           ops |-> [event_loop.ops EXCEPT
                       ![t] = Some([op |-> op, args |-> args, stage |-> "load"])]]

\* record_entry, statement by statement.
EntryLoads(t) ==
    /\ At(t, "record_entry", "load")
    /\ entries_by_date' =
          MaybeLoadDate(entries_by_date, DateKey(Get(event_loop.ops[t]).args.sent_at))
    /\ event_loop' = Goes(t, "mutate")
    /\ UNCHANGED <<now, vote_storage_dir, vote_files, vote_log, vote_cleared>>

EntryAppends(t) ==
    /\ At(t, "record_entry", "mutate")
    /\ LET args == Get(event_loop.ops[t]).args
       IN  entries_by_date' = AppendEntry(args.chat_id, args.message_id,
                                          args.file_id, args.sent_at)
    /\ event_loop' = Goes(t, "write")
    /\ UNCHANGED <<now, vote_storage_dir, vote_files, vote_log, vote_cleared>>

EntrySaves(t) ==
    /\ At(t, "record_entry", "write")
    /\ LET args == Get(event_loop.ops[t]).args
           date_key == DateKey(args.sent_at)
           at == <<MskDay(args.sent_at.instant), args.chat_id>>
       IN  /\ vote_files' = SaveDate(entries_by_date, date_key)
           /\ vote_log' = Put(vote_log, at, Append(GetOr(vote_log, at, << >>), args))
           /\ vote_cleared' = vote_cleared \ {date_key}
    /\ event_loop' = Goes(t, "return")
    /\ UNCHANGED <<now, vote_storage_dir, entries_by_date>>

\* record_usage, statement by statement.
UsageLoads(t) ==
    /\ At(t, "record_usage", "load")
    /\ counts_by_month' =
          MaybeLoadMonth(counts_by_month, MonthKey(Get(event_loop.ops[t]).args.when))
    /\ event_loop' = Goes(t, "mutate")
    /\ UNCHANGED <<now, stats_storage_dir, stats_files, stats_log, stats_cleared>>

UsageCounts(t) ==
    /\ At(t, "record_usage", "mutate")
    /\ LET args == Get(event_loop.ops[t]).args
       IN  counts_by_month' = CountUsage(args.chat_id, args.user_id, args.when)
    /\ event_loop' = Goes(t, "write")
    /\ UNCHANGED <<now, stats_storage_dir, stats_files, stats_log, stats_cleared>>

UsageSaves(t) ==
    /\ At(t, "record_usage", "write")
    /\ LET args == Get(event_loop.ops[t]).args
           month_key == MonthKey(args.when)
           at == <<MskMonth(args.when.instant), args.chat_id, args.user_id>>
       IN  /\ stats_files' = SaveMonth(counts_by_month, month_key)
           /\ stats_log' = Put(stats_log, at, GetOr(stats_log, at, 0) + 1)
           /\ stats_cleared' = stats_cleared \ {month_key}
    /\ event_loop' = Goes(t, "return")
    /\ UNCHANGED <<now, stats_storage_dir, counts_by_month>>

\* clear_date and clear_month of the current day and month, each in one go.
Clears(t) ==
    /\ \/ /\ At(t, "clear_date", "load")
          /\ ClearDate(DateOf(NowMsk))
          /\ UNCHANGED statsVars
       \/ /\ At(t, "clear_month", "load")
          /\ ClearMonth(MonthKey(NowMsk))
          /\ UNCHANGED voteVars
    /\ event_loop' = Goes(t, "return")

\* ------------------------------- dead_chat: the announcement coroutine

\* The coroutine is not running.
IdleAnnounce ==
    [pc |-> "idle", date_key |-> << >>, chats |-> << >>, entries |-> << >>,
     i |-> 0, best |-> NoBest, scored |-> {}, destroyed |-> {}]

\* The entries the ledger holds for a date, of all conversations.
StoredFor(date_key) ==
    UNION {Elements(EntriesForDate(date_key, c)) : c \in ChatsForDate(date_key)}

RECURSIVE NextConversation(_, _)
\* for chat_id in chat_ids, from the given rest of the list on: the first
\* conversation that has entries now is entered and the lookup of its
\* first entry awaited; when there is none the loop ends and the caller
\* goes on to clear_date.
NextConversation(job, chats) ==
    IF chats = << >> THEN [job EXCEPT !.pc = "clear", !.chats = << >>]
    ELSE LET entries == EntriesForDate(job.date_key, Head(chats))
         IN  IF entries = << >> THEN NextConversation(job, Tail(chats))
             ELSE [job EXCEPT !.pc = "lookup", !.chats = chats,
                              !.entries = entries, !.i = 1, !.best = NoBest]

\* The coroutine runs on to its next await, or to its end, where it calls
\* clear_date without having been suspended in between.
RunOn(job) ==
    IF job.pc = "clear"
    THEN /\ ClearDate(job.date_key)
         /\ announce_job' = [job EXCEPT !.pc = "idle",
                                        !.destroyed = StoredFor(job.date_key)]
    ELSE /\ announce_job' = job
         /\ entries_by_date' = MaybeLoadDate(entries_by_date, job.date_key)
         /\ UNCHANGED <<now, vote_storage_dir, vote_files, vote_log, vote_cleared>>

\* announce_tyan_of_the_day (and the test command) up to the first await.
AnnounceBegins ==
    /\ announce_job.pc = "idle"
    /\ LET date_key == DateOf(NowMsk)
           job == [IdleAnnounce EXCEPT !.date_key = date_key]
       IN  RunOn(NextConversation(job, ListOf(ChatsForDate(date_key))))

\* await get_message_reaction_total(...) returns the count, or raises: the
\* exception ends the conversation's try block.
LookupReturns(total) ==
    /\ announce_job.pc = "lookup"
    /\ LET job == announce_job
           entry == job.entries[job.i]
           scored == [job EXCEPT
                         !.scored = @ \cup {entry},
                         !.best = IF TakesOver(job.best, entry, Get(total))
                                  THEN [entry |-> Some(entry), count |-> Get(total)]
                                  ELSE @]
       IN  IF total = None THEN RunOn(NextConversation(job, Tail(job.chats)))
           ELSE IF job.i < Len(job.entries)
           THEN RunOn([scored EXCEPT !.i = @ + 1])
           ELSE IF scored.best.entry = None
           THEN RunOn(NextConversation(scored, Tail(job.chats)))
           ELSE RunOn([scored EXCEPT !.pc = "send"])

\* await context.bot.send_photo(...) of the winner returns or raises: in
\* either case the next conversation.
AnnouncementSent(raised) ==
    /\ announce_job.pc = "send"
    /\ RunOn(NextConversation(announce_job, Tail(announce_job.chats)))

\* ------------------------------------------- dead_chat: the scan job

\* track_message: messages of bots and updates without a chat are ignored,
\* any other message records activity.
TrackMessageAlways(chat_id, is_bot) == UpdateActivity(chat_id)
TrackMessage(chat_id, is_bot) ==
    IF is_bot THEN UNCHANGED <<now, activityVars>>
    ELSE UpdateActivity(chat_id)

\* The coroutine is not running.
IdleJob == [pc |-> "idle", chats |-> << >>, attempt |-> 0]

\* for chat_id in inactive_chats: the first photo attempt of the first of
\* the conversations, or the end of the run.
VisitChats(chats) ==
    IF chats = << >> THEN IdleJob
    ELSE [pc |-> "fetch", chats |-> chats, attempt |-> 0]

\* The conversation the job is visiting.
CurrentChat == Head(scan_job.chats)

\* A photo attempt failed (no url, or send_photo raised): the next attempt,
\* or after the last one the statement after the loop, where photo_sent is
\* False and the text notice is sent.
AfterFailedAttempt ==
    IF scan_job.attempt + 1 < PhotoAttempts
    THEN [scan_job EXCEPT !.pc = "fetch", !.attempt = @ + 1]
    ELSE [scan_job EXCEPT !.pc = "send_message"]

\* A photo was sent: photo_sent is True, the attempts end and the job goes
\* on to the next conversation.
AfterPhotoSentNoContinue == [scan_job EXCEPT !.pc = "send_message"]
AfterPhotoSent == VisitChats(Tail(scan_job.chats))

\* The history of a run that has computed the list scanned and has sent
\* nothing yet.
NewRun(scanned) ==
    [scan_log EXCEPT !.scanned = scanned, !.notices = << >>,
                     !.marked = << >>, !.failed = << >>,
                     !.photo_failures = 0]

\* The history after a notice of the given kind went to the current
\* conversation and mark_dead_chat_sent was called for it.
Noticed(kind, photos) ==
    [scan_log EXCEPT
        !.notices = Append(@, [chat_id |-> CurrentChat, kind |-> kind,
                               inactive |-> IsChatInactive(CurrentChat),
                               photo_failures |-> scan_log.photo_failures]),
        !.marked = Append(@, CurrentChat),
        !.photos = photos,
        !.photo_failures = 0]

\* check_inactive_chats up to its first await: the list is computed once.
CheckInactiveChats ==
    /\ scan_job.pc = "idle"
    /\ scan_job' = VisitChats(GetInactiveChats)
    /\ scan_log' = NewRun(GetInactiveChats)
    /\ UNCHANGED <<now, activityVars, voteVars>>

\* await _fetch_neko_image_url() returns: a url, or None on any failure.
FetchReturns(url) ==
    /\ scan_job.pc = "fetch"
    /\ IF url # None
       THEN /\ scan_job' = [scan_job EXCEPT !.pc = "send_photo"]
            /\ UNCHANGED scan_log
       ELSE /\ scan_job' = AfterFailedAttempt
            /\ scan_log' = [scan_log EXCEPT !.photo_failures = @ + 1]
    /\ UNCHANGED <<now, activityVars, voteVars>>

\* msg.photo[-1].file_id if getattr(msg, "photo", None) else None
FileIdOf(msg) == IF msg.photo = << >> THEN None ELSE Some(msg.photo[Len(msg.photo)])

\* The vote entry recorded for a sent photo: none unless it has a file id.
RecordPhotoAlways(chat_id, msg) ==
    RecordEntry(chat_id, msg.message_id,
                IF FileIdOf(msg) = None THEN "" ELSE Get(FileIdOf(msg)), msg.date)
RecordPhoto(chat_id, msg) ==
    IF FileIdOf(msg) # None /\ Get(FileIdOf(msg)) # ""
    THEN RecordEntry(chat_id, msg.message_id, Get(FileIdOf(msg)), msg.date)
    ELSE UNCHANGED <<now, voteVars>>

\* The photos sent so far, with the one just sent when it has a file id.
PhotosWith(chat_id, msg) ==
    IF FileIdOf(msg) # None /\ Get(FileIdOf(msg)) # ""
    THEN Append(scan_log.photos,
                [chat_id |-> chat_id, message_id |-> msg.message_id,
                 file_id |-> Get(FileIdOf(msg)), sent_at |-> msg.date])
    ELSE scan_log.photos

\* await context.bot.send_photo(...) returns the sent message: the
\* conversation is marked, the photo is recorded as a vote entry and the
\* job goes on to the next conversation.
SendPhotoReturns(msg) ==
    /\ scan_job.pc = "send_photo"
    /\ MarkDeadChatSent(CurrentChat)
    /\ RecordPhoto(CurrentChat, msg)
    /\ scan_log' = Noticed("photo", PhotosWith(CurrentChat, msg))
    /\ scan_job' = AfterPhotoSent

\* await context.bot.send_photo(...) raises: the attempt failed.
SendPhotoRaises ==
    /\ scan_job.pc = "send_photo"
    /\ scan_job' = AfterFailedAttempt
    /\ scan_log' = [scan_log EXCEPT !.photo_failures = @ + 1]
    /\ UNCHANGED <<now, activityVars, voteVars>>

\* await context.bot.send_message(...) returns: the text notice was sent.
SendMessageReturns ==
    /\ scan_job.pc = "send_message"
    /\ MarkDeadChatSent(CurrentChat)
    /\ scan_log' = Noticed("text", scan_log.photos)
    /\ scan_job' = VisitChats(Tail(scan_job.chats))
    /\ UNCHANGED voteVars

\* await context.bot.send_message(...) raises: the error is logged and the
\* job goes on to the next conversation.
SendMessageRaises ==
    /\ scan_job.pc = "send_message"
    /\ scan_log' = [scan_log EXCEPT !.failed = Append(@, CurrentChat),
                                    !.photo_failures = 0]
    /\ scan_job' = VisitChats(Tail(scan_job.chats))
    /\ UNCHANGED <<now, activityVars, voteVars>>

\* The job has not run and no call is in progress.
InitJobs ==
    /\ event_loop = IdleLoop
    /\ members_call = NoMembersCall
    /\ announce_job = IdleAnnounce
    /\ scan_job = IdleJob
    /\ scan_log = [scanned |-> << >>, notices |-> << >>, marked |-> << >>,
                   failed |-> << >>, photo_failures |-> 0, photos |-> << >>]

\* No ledger operation has been called yet.
InitCall ==
    ledger_call = [op |-> "init", key |-> << >>, raised |-> FALSE, io |-> {}]

\* The process after construction of its services.  The specification of
\* one service leaves the others as constructed, the activity service with
\* a threshold of one tick.
\* The components added after the ledgers, as constructed.
InitLater ==
    InitScan /\ InitLimiter /\ InitTracker /\ InitRoulette /\ InitJobs

Init ==
    /\ InitClock /\ InitActivity /\ InitCooldown /\ InitVote /\ InitStats
    /\ InitAnnounce /\ InitCall /\ InitLater
InitDefault == Init /\ inactive_threshold = 1

\* What every step of the activity service leaves alone.
ActivityFrame ==
    UNCHANGED <<cooldownVars, voteVars, statsVars, announceVars, callVars,
                laterVars>>

NextActivity ==
    \/ Tick(MaxTime) /\ UNCHANGED <<activityVars, scanVars>> /\ ActivityFrame
    \/ \E c \in ChatIds :
          UpdateActivity(c) /\ UNCHANGED scanVars /\ ActivityFrame
    \/ \E c \in ChatIds :
          MarkDeadChatSent(c) /\ UNCHANGED scanVars /\ ActivityFrame

SpecActivity == Init /\ [][NextActivity]_vars

\* The activity service with the periodic scan for inactive conversations,
\* over the morning in which the active hours begin.
NextScan ==
    \/ /\ Tick(MaxScanTime)
       /\ inactive_chats' = None
       /\ UNCHANGED activityVars /\ ActivityFrame
    \/ \E c \in ChatIds :
          UpdateActivity(c) /\ inactive_chats' = None /\ ActivityFrame
    \/ \E c \in ChatIds :
          MarkDeadChatSent(c) /\ inactive_chats' = None /\ ActivityFrame
    \/ CallGetInactiveChats /\ ActivityFrame

SpecScan == Init /\ [][NextScan]_vars

NextCooldown ==
    \/ Tick(MaxCooldownTime) /\ UNCHANGED <<activityVars, cooldownVars, voteVars, statsVars, announceVars, callVars, otherVars>>
    \/ \E command \in Commands, h \in CooldownHours, chat_id \in ChatArgs :
          CallCanExecute(command, h, chat_id) /\ UNCHANGED <<activityVars, voteVars, statsVars, announceVars, callVars, otherVars>>
    \/ \E command \in Commands, h \in CooldownHours, chat_id \in ChatArgs :
          CallGetRemainingCooldown(command, h, chat_id) /\ UNCHANGED <<activityVars, voteVars, statsVars, announceVars, callVars, otherVars>>
    \/ \E command \in Commands, chat_id \in ChatArgs :
          MarkUsed(command, chat_id) /\ UNCHANGED <<activityVars, voteVars, statsVars, announceVars, callVars, otherVars>>

SpecCooldown == InitDefault /\ [][NextCooldown]_vars

\* The inputs of the ledgers.
\* The photos posted: a message id and the file id of its photo.
Photos == {[message_id |-> 101, file_id |-> "A"],
           [message_id |-> 102, file_id |-> "B"]}
UserIds == {11, 12}
\* The instant at which day number d begins in the business timezone.
MskMidnight(d) == d * DayTicks - MskOffset
\* sent_at: the last tick of 2025-01-01 in the business timezone and the
\* first two of 2025-01-02, as Telegram gives them (UTC) or in the business
\* timezone.
SentAts ==
    {[instant |-> MskMidnight(1) - 1, offset |-> 0],
     [instant |-> MskMidnight(1), offset |-> 0],
     [instant |-> MskMidnight(1) + 1, offset |-> MskOffset]}
\* The date keys a caller asks for.
DateKeys == {DateOfDay(0), DateOfDay(1)}
\* when: None (now, in January), or the last tick of January 2025 in the
\* business timezone or the first of February.
Whens ==
    {None,
     Some([instant |-> MskMidnight(31) - 1, offset |-> 0]),
     Some([instant |-> MskMidnight(31), offset |-> MskOffset])}
MonthKeys == {<<EpochYear, 1>>, <<EpochYear, 2>>}

\* The number of entries, and of usages, recorded since the last clear.
EntriesLogged == SumOver([at \in DOMAIN vote_log |-> Len(vote_log[at])],
                         DOMAIN vote_log)
UsagesLogged == SumOver(stats_log, DOMAIN stats_log)

\* A restart of the process: both services are constructed anew.
Restart ==
    /\ NewVoteService
    /\ NewStatsService
    /\ UNCHANGED <<now, vote_files, vote_log, vote_cleared,
                   stats_files, stats_log, stats_cleared>>

\* The two ledgers share no state: each keeps its own cache and its own
\* files, and every operation of one leaves the other as it is.  A behaviour
\* therefore exercises one ledger at a time: an operation of one ledger is
\* taken while the other holds no data; the interleavings left out add no
\* state of either ledger.
VoteAtRest ==
    entries_by_date = << >> /\ vote_files = << >> /\ vote_log = << >>
StatsAtRest ==
    counts_by_month = << >> /\ stats_files = << >> /\ stats_log = << >>

VoteStep ==
    StatsAtRest /\ UNCHANGED <<activityVars, cooldownVars, statsVars, announceVars, callVars, otherVars>>
StatsStep ==
    VoteAtRest /\ UNCHANGED <<activityVars, cooldownVars, voteVars, announceVars, callVars, otherVars>>

NextLedger ==
    \/ \E chat_id \in ChatIds, photo \in Photos, sent_at \in SentAts :
          /\ EntriesLogged < MaxEntries
          /\ RecordEntry(chat_id, photo.message_id, photo.file_id, sent_at)
          /\ VoteStep
    \/ \E date_key \in DateKeys, chat_id \in ChatIds :
          GetEntriesForDate(date_key, chat_id) /\ VoteStep
    \/ \E date_key \in DateKeys : ClearDate(date_key) /\ VoteStep
    \/ \E chat_id \in ChatIds, user_id \in UserIds, when \in Whens :
          /\ UsagesLogged < MaxUsages
          /\ RecordUsage(chat_id, user_id, when)
          /\ StatsStep
    \/ \E month_key \in MonthKeys, chat_id \in ChatIds :
          GetTopForMonth(month_key, chat_id) /\ StatsStep
    \/ \E month_key \in MonthKeys : ClearMonth(month_key) /\ StatsStep
    \/ Restart /\ UNCHANGED <<activityVars, cooldownVars, announceVars, callVars, otherVars>>

SpecLedger == InitDefault /\ [][NextLedger]_vars

\* The announcement job over the daily ledger.  The job runs at 22:00 of
\* the first or of the second day of the calendar.
JobTimes == {MskMidnight(d) + JobHour * TicksPerHour : d \in {0, 1}}

InitAtJobTime ==
    /\ now \in JobTimes
    /\ InitActivity /\ inactive_threshold = 1
    /\ InitCooldown /\ InitVote /\ InitStats /\ InitAnnounce /\ InitCall
    /\ InitLater

NextAnnounce ==
    \/ \E chat_id \in ChatIds, photo \in Photos, sent_at \in SentAts :
          /\ EntriesLogged < MaxEntries
          /\ RecordEntry(chat_id, photo.message_id, photo.file_id, sent_at)
          /\ announce_log' = << >>
          /\ UNCHANGED <<activityVars, cooldownVars, statsVars, callVars, otherVars>>
    \/ /\ AnnounceTyanOfTheDay
       /\ UNCHANGED <<activityVars, cooldownVars, statsVars, callVars, otherVars>>
    \/ /\ Restart
       /\ announce_log' = << >>
       /\ UNCHANGED <<activityVars, cooldownVars, callVars, otherVars>>

SpecAnnounce == InitAtJobTime /\ [][NextAnnounce]_vars

\* The rate limiter, called for two users while time passes.
LimiterFrame ==
    UNCHANGED <<activityVars, cooldownVars, voteVars, statsVars, announceVars,
                callVars, scanVars, trackerVars, rouletteVars, jobVars>>

NextLimiter ==
    \/ Tick(MaxLimiterTime) /\ UNCHANGED limiterVars /\ LimiterFrame
    \/ \E user_id \in UserIds : CallIsAllowed(user_id) /\ LimiterFrame
    \/ \E user_id \in UserIds : CallGetRemaining(user_id) /\ LimiterFrame
    \/ \E user_id \in UserIds : CallResetUser(user_id) /\ LimiterFrame

SpecLimiter == InitDefault /\ [][NextLimiter]_vars

\* The tracker in one chat where more users write than it keeps: each new
\* user, in turn, and the first one again; updates it ignores as well.
TrackerChatIds == {7}
TrackerUpdatesIn(chat_id) ==
    LET seen == Len(GetOr(tracked_order, chat_id, << >>)) IN
    {UpdateOf(chat_id, "supergroup", user_id, FALSE) :
        user_id \in {1} \cup {u \in {seen + 1} : u <= MaxTracked}}
    \cup {UpdateOf(chat_id, "supergroup", 1, TRUE),
          UpdateOf(chat_id, "private", 1, FALSE),
          [chat |-> None, user |-> None]}
TrackerUpdates == UNION {TrackerUpdatesIn(chat_id) : chat_id \in TrackerChatIds}

TrackerFrame ==
    UNCHANGED <<activityVars, cooldownVars, voteVars, statsVars, announceVars,
                callVars, scanVars, limiterVars, rouletteVars, jobVars>>

NextTracker ==
    \E update \in TrackerUpdates : TrackUser(update) /\ TrackerFrame

SpecTracker == InitDefault /\ [][NextTracker]_vars

\* The roulette in one chat: its users write, time passes, the cooldown of
\* the command is marked for the chat or without a chat, and the command is
\* called under every answer of its environment.
RouletteChatIds == {7}
RouletteUpdates ==
    {UpdateOf(chat_id, type, user_id, FALSE) :
        chat_id \in RouletteChatIds, type \in {"private", "supergroup"},
        user_id \in UserIds}
AllEnvs ==
    [bot_status : {"member", "administrator"},
     can_restrict : BOOLEAN,
     admin_ids : {{11}, {11, 12}},
     available : BOOLEAN,
     members : {None, Some(<<11, 12, BotId>>)},
     member_count : {None, Some(2), Some(3)},
     restrict_raises : BOOLEAN,
     reply_raises : BOOLEAN]
\* An answer the handler cannot come to ask for is left at its default.
Unasked(env) ==
    /\ env.members = None /\ env.member_count = None
    /\ ~env.restrict_raises /\ ~env.reply_raises
RouletteEnvs ==
    {env \in AllEnvs :
        /\ env.bot_status \notin AdminStatuses
              => ~env.can_restrict /\ ~env.available /\ Unasked(env)
        /\ ~env.can_restrict => ~env.available /\ Unasked(env)
        /\ env.available => env.member_count = None
        /\ ~env.available /\ env.can_restrict => env.members = None
        /\ env.restrict_raises => ~env.reply_raises}

RouletteFrame ==
    UNCHANGED <<activityVars, voteVars, statsVars, announceVars, callVars,
                scanVars, limiterVars, jobVars>>

NextRoulette ==
    \/ /\ Tick(MaxCooldownTime)
       /\ roulette_call' = NoRouletteCall
       /\ UNCHANGED <<cooldownVars, trackerVars>> /\ RouletteFrame
    \/ \E chat_id \in RouletteChatIds, user_id \in UserIds :
          /\ TrackUser(UpdateOf(chat_id, "supergroup", user_id, FALSE))
          /\ roulette_call' = NoRouletteCall
          /\ UNCHANGED cooldownVars /\ RouletteFrame
    \/ \E chat_id \in {None} \cup {Some(c) : c \in RouletteChatIds} :
          /\ MarkUsed(KillRandom, chat_id)
          /\ roulette_call' = NoRouletteCall
          /\ UNCHANGED trackerVars /\ RouletteFrame
    \/ \E update \in RouletteUpdates, env \in RouletteEnvs :
          /\ KillRandomCommand(update, env)
          /\ UNCHANGED trackerVars /\ RouletteFrame

SpecRoulette == InitDefault /\ [][NextRoulette]_vars

\* The scan job interleaved with the message handler.  The job is
\* suspended at each await; between two of its steps the event loop runs
\* any handler and the clock advances.  The clock starts when the active
\* hours of day 0 begin.
ScanStart == MskMidnight(0) + ActiveFrom * TicksPerHour

\* The messages send_photo can return now: Telegram stamps them in UTC.
JobMessageIds == {101}
JobPhotoSizes == {<< >>, <<"a", "A">>}
JobMessages ==
    {[message_id |-> m, photo |-> ph, date |-> [instant |-> now, offset |-> 0]] :
        m \in JobMessageIds, ph \in JobPhotoSizes}

\* What _fetch_neko_image_url returns.
JobUrls == {None, Some("u")}

InitAtScanTime ==
    /\ now = ScanStart
    /\ InitActivity /\ inactive_threshold = 1
    /\ InitCooldown /\ InitVote /\ InitStats /\ InitAnnounce /\ InitCall
    /\ InitLater

JobFrame ==
    UNCHANGED <<cooldownVars, statsVars, announceVars, callVars, scanVars,
                limiterVars, trackerVars, rouletteVars, members_call,
                announce_job, event_loop>>

NextJob ==
    \/ /\ Tick(ScanStart + MaxJobTicks)
       /\ UNCHANGED <<activityVars, voteVars, scanJobVars>> /\ JobFrame
    \/ \E chat_id \in ChatIds, is_bot \in BOOLEAN :
          /\ TrackMessage(chat_id, is_bot)
          /\ UNCHANGED <<voteVars, scanJobVars>> /\ JobFrame
    \/ CheckInactiveChats /\ JobFrame
    \/ \E url \in JobUrls : FetchReturns(url) /\ JobFrame
    \/ \E msg \in JobMessages : SendPhotoReturns(msg) /\ JobFrame
    \/ SendPhotoRaises /\ JobFrame
    \/ SendMessageReturns /\ JobFrame
    \/ SendMessageRaises /\ JobFrame

SpecJob == InitAtScanTime /\ [][NextJob]_vars

\* One caller of get_chat_members at a time (the roulette handler awaits
\* it), on a chat whose members the client streams one by one.
MemberRows ==
    <<[user |-> Some([id |-> 11, is_bot |-> FALSE, is_deleted |-> FALSE])],
      [user |-> None],
      [user |-> Some([id |-> 99, is_bot |-> TRUE, is_deleted |-> FALSE])],
      [user |-> Some([id |-> 12, is_bot |-> FALSE, is_deleted |-> TRUE])]>>
MemberLists == {<< >>, MemberRows}

MembersFrame ==
    UNCHANGED <<now, activityVars, cooldownVars, voteVars, statsVars,
                announceVars, callVars, scanVars, limiterVars, trackerVars,
                rouletteVars, scanJobVars, announce_job, event_loop>>

\* The steps of a call in progress.
MembersStep ==
    \/ \E connected \in BOOLEAN : EnsureConnectedReturns(connected)
    \/ NextMember
    \/ \E error \in MemberErrors : EnumerationRaises(error)
    \/ FloodSleepReturns
    \/ BackoffReturns

NextMembers ==
    \/ /\ \E initialized, exclude_bots, exclude_deleted \in BOOLEAN,
             max_retries \in 0..MaxRetries, members \in MemberLists :
             GetChatMembers(initialized, max_retries, exclude_bots,
                            exclude_deleted, members)
       /\ MembersFrame
    \/ MembersStep /\ MembersFrame
    \/ CallerResumes /\ MembersFrame

SpecMembers == InitDefault /\ [][NextMembers]_vars

\* The awaits of a call complete: the sleeps are finite, the connection
\* attempt and every request of the enumeration return or raise.
SpecMembersFair == SpecMembers /\ WF_vars(MembersStep /\ MembersFrame)

RaceFrame ==
    UNCHANGED <<cooldownVars, statsVars, announceVars, callVars, scanVars,
                limiterVars, trackerVars, rouletteVars, members_call,
                event_loop>>

\* The announcement interleaved with the scan job's recording of a sent
\* photo.  Photos are sent in the active hours only, where the announcement
\* is started by the test command; the job of 22:00 meets no recording.
NextRace ==
    \/ /\ Tick(ScanStart + MaxJobTicks)
       /\ UNCHANGED <<activityVars, voteVars, scanJobVars, announce_job>>
       /\ JobFrame
    \/ \E chat_id \in ChatIds, msg \in JobMessages :
          /\ EntriesLogged < MaxEntries
          /\ FileIdOf(msg) # None
          /\ RecordPhoto(chat_id, msg)
          /\ UNCHANGED <<activityVars, scanJobVars, announce_job>>
          /\ RaceFrame
    \/ /\ AnnounceBegins
       /\ UNCHANGED <<activityVars, scanJobVars>> /\ RaceFrame
    \/ \E total \in ReactionTotals :
          /\ LookupReturns(total)
          /\ UNCHANGED <<activityVars, scanJobVars>> /\ RaceFrame
    \/ \E raised \in BOOLEAN :
          /\ AnnouncementSent(raised)
          /\ UNCHANGED <<activityVars, scanJobVars>> /\ RaceFrame

SpecRace == InitAtScanTime /\ [][NextRace]_vars

\* The callbacks of the event loop that call the ledgers, each operation
\* executed statement by statement.
LoopFrame ==
    UNCHANGED <<activityVars, cooldownVars, announceVars, callVars, scanVars,
                limiterVars, trackerVars, rouletteVars, scanJobVars,
                members_call, announce_job>>

LoopCalls ==
    {[op |-> "record_entry",
      args |-> [chat_id |-> c, message_id |-> photo.message_id,
                file_id |-> photo.file_id,
                sent_at |-> [instant |-> now, offset |-> 0]]] :
        c \in ChatIds, photo \in Photos}
    \cup {[op |-> "record_usage",
           args |-> [chat_id |-> c, user_id |-> u, when |-> NowMsk]] :
             c \in ChatIds, u \in UserIds}
    \cup {[op |-> "clear_date", args |-> << >>],
          [op |-> "clear_month", args |-> << >>]}

NextLoop ==
    \/ \E t \in Callbacks, call \in LoopCalls :
          /\ call.op = "record_entry" => EntriesLogged < MaxEntries
          /\ call.op = "record_usage" => UsagesLogged < MaxUsages
          /\ Calls(t, call.op, call.args)
          /\ UNCHANGED <<now, voteVars, statsVars>> /\ LoopFrame
    \/ \E t \in Callbacks : EntryLoads(t) /\ UNCHANGED statsVars /\ LoopFrame
    \/ \E t \in Callbacks : EntryAppends(t) /\ UNCHANGED statsVars /\ LoopFrame
    \/ \E t \in Callbacks : EntrySaves(t) /\ UNCHANGED statsVars /\ LoopFrame
    \/ \E t \in Callbacks : UsageLoads(t) /\ UNCHANGED voteVars /\ LoopFrame
    \/ \E t \in Callbacks : UsageCounts(t) /\ UNCHANGED voteVars /\ LoopFrame
    \/ \E t \in Callbacks : UsageSaves(t) /\ UNCHANGED voteVars /\ LoopFrame
    \/ \E t \in Callbacks : Clears(t) /\ LoopFrame

SpecLoop == InitDefault /\ [][NextLoop]_vars

\* The ledgers over a storage directory that fails: a write is cut short by
\* a crash, a file is removed or damaged from outside the process, and the
\* directory cannot be created when the process starts.  Every step notes
\* in ledger_call what was called; the histories of the fault-free ledgers
\* (vote_log, stats_log and the cleared keys) are not kept here.
Call(op, key, raised, io) ==
    ledger_call' = [op |-> op, key |-> key, raised |-> raised, io |-> io]

CallRecordEntry(chat_id, message_id, file_id, sent_at) ==
    LET date_key == DateKey(sent_at)
        mem == AppendEntry(chat_id, message_id, file_id, sent_at)
    IN  /\ entries_by_date' = mem
        /\ vote_files' = SaveDate(mem, date_key)
        /\ UNCHANGED <<now, vote_storage_dir, vote_log, vote_cleared>>
        /\ Call("record_entry", date_key, LoadDateRaises(date_key),
                LoadDateIo(entries_by_date, date_key) \cup SaveDateIo(date_key))

CallGetEntriesForDate(date_key, chat_id) ==
    /\ GetEntriesForDate(date_key, chat_id)
    /\ Call("get_entries_for_date", date_key, LoadDateRaises(date_key),
            LoadDateIo(entries_by_date, date_key))

CallClearDate(date_key) ==
    /\ entries_by_date' = CacheAfterClearDate(date_key)
    /\ vote_files' = FilesAfterClearDate(date_key)
    /\ UNCHANGED <<now, vote_storage_dir, vote_log, vote_cleared>>
    /\ Call("clear_date", date_key, FALSE, ClearDateIo(date_key))

CallRecordUsage(chat_id, user_id, when) ==
    LET dt == IF when = None THEN NowMsk ELSE Get(when)
        month_key == MonthKey(dt)
        mem == CountUsage(chat_id, user_id, dt)
    IN  /\ counts_by_month' = mem
        /\ stats_files' = SaveMonth(mem, month_key)
        /\ UNCHANGED <<now, stats_storage_dir, stats_log, stats_cleared>>
        /\ Call("record_usage", month_key, LoadMonthRaises(month_key),
                LoadMonthIo(counts_by_month, month_key)
                    \cup SaveMonthIo(month_key))

CallGetTopForMonth(month_key, chat_id) ==
    /\ GetTopForMonth(month_key, chat_id)
    /\ Call("get_top_for_month", month_key, LoadMonthRaises(month_key),
            LoadMonthIo(counts_by_month, month_key))

CallClearMonth(month_key) ==
    /\ counts_by_month' = CacheAfterClearMonth(month_key)
    /\ stats_files' = FilesAfterClearMonth(month_key)
    /\ UNCHANGED <<now, stats_storage_dir, stats_log, stats_cleared>>
    /\ Call("clear_month", month_key, FALSE, ClearMonthIo(month_key))

\* The process dies inside _save_date, after open("w"); the next process
\* starts over the files it left.
CrashInSaveDate(date_key) ==
    /\ VoteFilePath(date_key) # None
    /\ vote_files' = FilesAfterInterruptedSaveDate(date_key)
    /\ NewVoteService /\ NewStatsService
    /\ Call("crash_in_save_date", date_key, FALSE, SaveDateIo(date_key))
    /\ UNCHANGED <<now, vote_log, vote_cleared,
                   stats_files, stats_log, stats_cleared>>

\* The process dies inside _save_month, after open("w").
CrashInSaveMonth(month_key) ==
    /\ StatsFilePath(month_key) # None
    /\ stats_files' = FilesAfterInterruptedSaveMonth(month_key)
    /\ NewVoteService /\ NewStatsService
    /\ Call("crash_in_save_month", month_key, FALSE, SaveMonthIo(month_key))
    /\ UNCHANGED <<now, stats_log, stats_cleared,
                   vote_files, vote_log, vote_cleared>>

\* The fields of a persisted record that the load parses.
ParsedFields == {"sent_at", "message_id"}

\* A file with field f of record i under key k made unparsable.
WithBadField(file, k, i, f) ==
    [file EXCEPT !.doc[k][i].bad = @ \cup {f}]

\* Every record of the file parses.
Intact(file) ==
    /\ file.valid
    /\ \A k \in DOMAIN file.doc :
          \A i \in 1..Len(file.doc[k]) : file.doc[k][i].bad = {}

\* What something outside the process can make of a file: None when it is
\* removed, else the damaged file.  One field of one record of an intact
\* file is damaged; more damage to the same file adds no case.
DamagedDateFiles(file) ==
    {None, Some(TruncatedFile)}
        \cup (IF ~Intact(file) THEN {}
              ELSE {Some(WithBadField(file, k, i, f)) :
                        k \in DOMAIN file.doc, i \in 1..MaxEntries,
                        f \in ParsedFields} \ {Some(file)})
DamagedMonthFiles(file) == {None, Some(TruncatedFile)}

\* A file of the daily ledger is removed or damaged behind the process.
ExternalEditDate(date_key, file) ==
    /\ vote_files' = IF file = None THEN Del(vote_files, date_key)
                     ELSE Put(vote_files, date_key, Get(file))
    /\ Call("external_edit_date", date_key, FALSE, {})
    /\ UNCHANGED <<now, entries_by_date, vote_storage_dir, vote_log,
                   vote_cleared>>

\* A file of the usage ledger is removed or damaged behind the process.
ExternalEditMonth(month_key, file) ==
    /\ stats_files' = IF file = None THEN Del(stats_files, month_key)
                      ELSE Put(stats_files, month_key, Get(file))
    /\ Call("external_edit_month", month_key, FALSE, {})
    /\ UNCHANGED <<now, counts_by_month, stats_storage_dir, stats_log,
                   stats_cleared>>

\* A restart of the process; mkdir of the storage directory succeeds or
\* raises, for both services alike (they share settings.STORAGE_PATH).
RestartProcess(dir_ok) ==
    /\ IF dir_ok THEN NewVoteService /\ NewStatsService
       ELSE NewVoteServiceNoDir /\ NewStatsServiceNoDir
    /\ Call("restart", << >>, FALSE, IF dir_ok THEN {"mkdir"} ELSE {})
    /\ UNCHANGED <<now, vote_files, vote_log, vote_cleared,
                   stats_files, stats_log, stats_cleared>>

\* The inputs under storage faults: one conversation and one user, the
\* photos sent on the second day, a usage now (January) or in February.
FaultyChatIds == {7}
FaultyUserIds == {11}
FaultySentAts == {[instant |-> MskMidnight(1), offset |-> 0]}
FaultyDateKeys == {DateOfDay(1)}
FaultyWhens == {None, Some([instant |-> MskMidnight(31), offset |-> MskOffset])}

\* The number of entries, and of usages, in the bucket an operation on the
\* key would work on.
EntriesHeld(date_key) ==
    LET bucket == GetOr(MaybeLoadDate(entries_by_date, date_key), date_key, << >>)
    IN  SumOver([c \in DOMAIN bucket |-> Len(bucket[c])], DOMAIN bucket)
UsagesHeld(month_key) ==
    LET bucket == GetOr(MaybeLoadMonth(counts_by_month, month_key), month_key, << >>)
    IN  SumOver([c \in DOMAIN bucket |-> SumOver(bucket[c], DOMAIN bucket[c])],
                DOMAIN bucket)

VoteStepFaulty ==
    StatsAtRest /\ UNCHANGED <<activityVars, cooldownVars, statsVars, announceVars, otherVars>>
StatsStepFaulty ==
    VoteAtRest /\ UNCHANGED <<activityVars, cooldownVars, voteVars, announceVars, otherVars>>

NextFaulty ==
    \/ \E chat_id \in FaultyChatIds, photo \in Photos, sent_at \in FaultySentAts :
          /\ EntriesHeld(DateKey(sent_at)) < MaxEntries
          /\ CallRecordEntry(chat_id, photo.message_id, photo.file_id, sent_at)
          /\ VoteStepFaulty
    \/ \E date_key \in FaultyDateKeys, chat_id \in FaultyChatIds :
          CallGetEntriesForDate(date_key, chat_id) /\ VoteStepFaulty
    \/ \E date_key \in FaultyDateKeys : CallClearDate(date_key) /\ VoteStepFaulty
    \/ \E date_key \in FaultyDateKeys :
          /\ EntriesHeld(date_key) < MaxEntries
          /\ StatsAtRest
          /\ CrashInSaveDate(date_key)
          /\ UNCHANGED <<activityVars, cooldownVars, announceVars, otherVars>>
    \/ \E date_key \in DOMAIN vote_files :
          \E file \in DamagedDateFiles(vote_files[date_key]) :
             ExternalEditDate(date_key, file) /\ VoteStepFaulty
    \/ \E chat_id \in FaultyChatIds, user_id \in FaultyUserIds, when \in FaultyWhens :
          /\ UsagesHeld(MonthKey(IF when = None THEN NowMsk ELSE Get(when)))
                < MaxUsages
          /\ CallRecordUsage(chat_id, user_id, when)
          /\ StatsStepFaulty
    \/ \E month_key \in MonthKeys, chat_id \in FaultyChatIds :
          CallGetTopForMonth(month_key, chat_id) /\ StatsStepFaulty
    \/ \E month_key \in MonthKeys : CallClearMonth(month_key) /\ StatsStepFaulty
    \/ \E month_key \in MonthKeys :
          /\ UsagesHeld(month_key) < MaxUsages
          /\ VoteAtRest
          /\ CrashInSaveMonth(month_key)
          /\ UNCHANGED <<activityVars, cooldownVars, announceVars, otherVars>>
    \/ \E month_key \in DOMAIN stats_files :
          \E file \in DamagedMonthFiles(stats_files[month_key]) :
             ExternalEditMonth(month_key, file) /\ StatsStepFaulty
    \/ \E dir_ok \in BOOLEAN :
          RestartProcess(dir_ok)
          /\ UNCHANGED <<activityVars, cooldownVars, announceVars, otherVars>>

SpecFaulty == InitDefault /\ [][NextFaulty]_vars

\* ------------------------------------------- claims: ChatActivityService

\* The wall time of day in the business timezone, in ticks since midnight.
TimeOfDayMsk == (now + MskOffset) % DayTicks
\* The active window [09:00, 21:00) of the business timezone.
InActiveWindow ==
    /\ ActiveFrom * TicksPerHour <= TimeOfDayMsk
    /\ TimeOfDayMsk < ActiveTo * TicksPerHour
\* Time elapsed since the last recorded activity of a tracked conversation.
SilentFor(c) == now - last_activity[c].instant

\* C1: is_chat_inactive(c) is true iff c has a last-activity record, the
\* current time lies inside the active window, and now - lastActivity is at
\* least the threshold; so an untracked conversation is never inactive, and
\* inside the window threshold+1 tick of silence is inactive while
\* threshold-1 tick is not.
C1_InactiveIff ==
    \A c \in ChatIds :
        /\ IsChatInactive(c) <=>
              /\ c \in DOMAIN last_activity
              /\ InActiveWindow
              /\ SilentFor(c) >= inactive_threshold
        /\ c \notin DOMAIN last_activity => ~IsChatInactive(c)
        /\ (c \in DOMAIN last_activity /\ InActiveWindow) =>
              /\ SilentFor(c) = inactive_threshold + 1 => IsChatInactive(c)
              /\ SilentFor(c) = inactive_threshold - 1 => ~IsChatInactive(c)

\* C1 witness: inside the window one tracked conversation has been silent for
\* exactly the threshold and is reported inactive, another one for one tick
\* less and is not.
C1_Witness ==
    \E c, d \in DOMAIN last_activity :
        /\ InActiveWindow
        /\ SilentFor(c) = inactive_threshold
        /\ IsChatInactive(c)
        /\ SilentFor(d) = inactive_threshold - 1
        /\ ~IsChatInactive(d)

\* C2: after mark_dead_chat_sent(c) at instant t with no later activity for
\* c, is_chat_inactive(c) is false at every time before t + threshold (the
\* instant t itself included) and true at every in-window time from
\* t + threshold on.
C2_CadenceAfterMark ==
    \A c \in DOMAIN dead_chat_sent_at :
        LET t == dead_chat_sent_at[c] IN
        /\ now < t + inactive_threshold => ~IsChatInactive(c)
        /\ now = t => ~IsChatInactive(c)
        /\ (now >= t + inactive_threshold /\ InActiveWindow) => IsChatInactive(c)

\* C2 witness: a conversation marked inside the window is reported inactive
\* again at the instant the threshold has elapsed since the mark.
C2_Witness ==
    \E c \in DOMAIN dead_chat_sent_at :
        /\ InActiveWindow
        /\ now = dead_chat_sent_at[c] + inactive_threshold
        /\ IsChatInactive(c)
        /\ ActiveFrom * TicksPerHour <= (dead_chat_sent_at[c] + MskOffset) % DayTicks

\* C3: inactivity is never reported outside the half-open window [09:00,
\* 21:00) of the business timezone, however long the silence: 09:00 is
\* inside, 21:00 and later and every hour before 09:00 are outside.
C3_NeverOutsideWindow ==
    /\ ~InActiveWindow => \A c \in ChatIds : ~IsChatInactive(c)
    /\ IsActiveHours(NowMsk) <=> InActiveWindow
    /\ TimeOfDayMsk = ActiveFrom * TicksPerHour => IsActiveHours(NowMsk)
    /\ TimeOfDayMsk >= ActiveTo * TicksPerHour => ~IsActiveHours(NowMsk)
    /\ TimeOfDayMsk < ActiveFrom * TicksPerHour => ~IsActiveHours(NowMsk)

\* C3 witness: last active at 10:00, checked the next day at 08:00 (22 hours
\* of silence): not inactive.
C3_Witness ==
    \E c \in DOMAIN last_activity :
        /\ (last_activity[c].instant + MskOffset) = 10 * TicksPerHour
        /\ now + MskOffset = DayTicks + 8 * TicksPerHour
        /\ SilentFor(c) >= inactive_threshold
        /\ ~IsChatInactive(c)

\* --------------------------------------- claims: CommandCooldownService

\* Time elapsed since the record of a key that has one.
ElapsedSince(key) == now - last_used[key].instant

\* C4: can_execute(key, cooldown) returns (true, None) iff the key has no
\* record or now - lastUsedAt >= cooldown; otherwise (false, remaining) with
\* remaining = cooldown - elapsed, strictly positive and at most cooldown.
\* The boundary elapsed = cooldown is allowed.
C4_CanExecuteResult ==
    \A command \in Commands, chat_id \in ChatArgs, h \in CooldownHours :
        LET key == GetKey(command, chat_id)
            r == CanExecute(command, h, chat_id)
            free == \/ key \notin DOMAIN last_used
                    \/ ElapsedSince(key) >= Hours(h)
        IN  /\ r.ok <=> free
            /\ r.ok => r.remaining = None
            /\ ~r.ok => /\ r.remaining = Some(Hours(h) - ElapsedSince(key))
                        /\ Get(r.remaining) > 0
                        /\ Get(r.remaining) <= Hours(h)
            /\ (key \in DOMAIN last_used /\ ElapsedSince(key) = Hours(h)) => r.ok

\* C4 witness: one key is exactly one cooldown of an hour old and is
\* allowed again, while a younger key is refused with the positive rest of
\* the hour as the time remaining.
C4_Witness ==
    \E command, other \in Commands, chat_id, other_chat \in ChatArgs :
        LET key == GetKey(command, chat_id)
            young == GetKey(other, other_chat)
        IN  /\ key \in DOMAIN last_used
            /\ young \in DOMAIN last_used
            /\ ElapsedSince(key) = Hours(1)
            /\ CanExecute(command, 1, chat_id) = [ok |-> TRUE, remaining |-> None]
            /\ ElapsedSince(young) \in 1..(Hours(1) - 1)
            /\ ~CanExecute(other, 1, other_chat).ok
            /\ CanExecute(other, 1, other_chat).remaining
                  = Some(Hours(1) - ElapsedSince(young))

\* The step just taken is the mark_used call that cd_call describes.
MarkUsedStep == cd_call'.op = "mark_used" /\ now' = now

\* C5: mark_used(command, chat) changes the result of can_execute only for
\* that same (command, chat-or-global) scope: no two different scopes share
\* a record, for every command name and conversation id.
C5_ScopesIndependent ==
    [][MarkUsedStep =>
         \A command \in Commands, chat_id \in ChatArgs, h \in CooldownHours :
            <<command, chat_id>> # <<cd_call'.command, cd_call'.chat_id>>
            => CanExecute(command, h, chat_id)' = CanExecute(command, h, chat_id)
      ]_vars

\* C6: can_execute and get_remaining_cooldown never modify the records; a
\* record changes only through mark_used, which sets the record of its key
\* to the current time (whether or not the key was free) and leaves every
\* other record as it was.
C6_OnlyMarkUsedWrites ==
    [][/\ cd_call'.op \in {"can_execute", "get_remaining_cooldown"}
            => last_used' = last_used
       /\ last_used' # last_used => cd_call'.op = "mark_used"
       /\ MarkUsedStep =>
            LET key == GetKey(cd_call'.command, cd_call'.chat_id) IN
            /\ DOMAIN last_used' = DOMAIN last_used \cup {key}
            /\ last_used'[key].instant = now
            /\ \A k \in DOMAIN last_used \ {key} : last_used'[k] = last_used[k]
      ]_vars

\* C6 witness: mark_used has just overwritten, with the current time, a
\* record that was still inside a one-hour cooldown, and a second key keeps
\* its own older record.
C6_Witness ==
    /\ cd_call.op = "mark_used"
    /\ cd_call.before # None
    /\ LET key == GetKey(cd_call.command, cd_call.chat_id) IN
       /\ Get(cd_call.before) < now
       /\ now - Get(cd_call.before) < Hours(1)
       /\ last_used[key].instant = now
       /\ \E k \in DOMAIN last_used : k # key /\ last_used[k].instant < now

\* ------------------------------------------ claims: the announced winner

\* Every lookup made for the entries of a processed conversation returned
\* a count.
AllCounted(run) == \A i \in 1..Len(run.entries) : run.totals[i] # None

\* Entry i of a processed conversation has the maximum reaction count and,
\* among the entries with that count, the earliest sent_at.
IsWinner(run, i) ==
    \A j \in 1..Len(run.entries) :
        /\ Get(run.totals[j]) <= Get(run.totals[i])
        /\ Get(run.totals[j]) = Get(run.totals[i]) =>
              run.entries[i].sent_at.instant <= run.entries[j].sent_at.instant

\* C7: the photo announced for a conversation is that of an entry with the
\* maximum reaction count and, among the entries with the maximum count,
\* the earliest sent_at; entries whose counts were all obtained yield a
\* winner, and no entries yield none.
C7_WinnerSelection ==
    \A chat_id \in DOMAIN announce_log :
        LET run == announce_log[chat_id] IN
        /\ run.sent # None =>
              /\ AllCounted(run)
              /\ Get(run.sent).chat_id = chat_id
              /\ \E i \in 1..Len(run.entries) :
                    /\ run.entries[i] = Get(run.sent).entry
                    /\ Get(run.totals[i]) = Get(run.sent).count
                    /\ IsWinner(run, i)
        /\ (run.entries # << >> /\ AllCounted(run)) => run.sent # None
        /\ run.entries = << >> => run.sent = None

\* C7 witness: two entries of one conversation tie on the reaction count,
\* the one recorded second was sent earlier, and it is the one announced.
C7_Witness ==
    \E chat_id \in DOMAIN announce_log :
        LET run == announce_log[chat_id] IN
        /\ Len(run.entries) = 2
        /\ AllCounted(run)
        /\ run.totals[1] = run.totals[2]
        /\ run.entries[2].sent_at.instant < run.entries[1].sent_at.instant
        /\ run.sent # None
        /\ Get(run.sent).entry = run.entries[2]

\* ------------------------------------------------ claims: the two ledgers

\* The day numbers whose date keys are in use.
Days == {0, 1}

\* An entry returned by the service equals the entry a record_entry call
\* was made with: same conversation, message id and file id, and a sent_at
\* denoting the same instant to the tick.
SameEntry(entry, call) ==
    /\ entry.chat_id = call.chat_id
    /\ entry.message_id = call.message_id
    /\ entry.file_id = call.file_id
    /\ entry.sent_at.instant = call.sent_at.instant

\* A returned list equals, entry by entry and in order, a list of calls.
SameEntries(entries, calls) ==
    /\ Len(entries) = Len(calls)
    /\ \A i \in 1..Len(calls) : SameEntry(entries[i], calls[i])

\* The record_entry calls made for a day and conversation since the last
\* clear of the day's key.
Recorded(day, chat_id) == GetOr(vote_log, <<day, chat_id>>, << >>)

IsPrefix(s, t) == Len(s) <= Len(t) /\ SubSeq(t, 1, Len(s)) = s

CountIn(top, user_id) ==
    IF \E i \in 1..Len(top) : top[i].user_id = user_id
    THEN top[CHOOSE i \in 1..Len(top) : top[i].user_id = user_id].count
    ELSE 0
ReportedCount(month_key, chat_id, user_id) ==
    CountIn(TopForMonth(month_key, chat_id, MaxUsages + 1), user_id)

StoredCount(month_key, chat_id, user_id) ==
    GetOr(GetOr(GetOr(MaybeLoadMonth(counts_by_month, month_key),
                      month_key, << >>), chat_id, << >>), user_id, 0)
DurableCount(month_key, chat_id, user_id) ==
    GetOr(GetOr(GetOr(MaybeLoadMonth(<< >>, month_key),
                      month_key, << >>), chat_id, << >>), user_id, 0)

\* The bucket of a month in a cache, and the count of a user in a bucket.
BucketOf(cache, month_key) == GetOr(cache, month_key, << >>)
CountOf(bucket, chat_id, user_id) ==
    GetOr(GetOr(bucket, chat_id, << >>), user_id, 0)

\* The (month, conversation, user) triples in use.
Triples == MonthKeys \X ChatIds \X UserIds

Limits == 0..(MaxUsages + 1)

\* The users with a count in a conversation and month.
UsersOf(month_key, chat_id) ==
    {u \in UserIds : StoredCount(month_key, chat_id, u) > 0}

\* Entry a of a ranking comes before a user with the given id and count.
RanksBefore(a, user_id, count) ==
    a.count > count \/ (a.count = count /\ a.user_id < user_id)

\* C13: get_top_for_month(M, C, limit) lists users of C in M with their
\* counts, by count descending and user id ascending among equal counts,
\* truncated to limit: for every limit >= 0 it has min(limit, number of
\* users) entries and every user left out ranks after every user listed.
C13_TopIsRankedPrefix ==
    \A month_key \in MonthKeys, chat_id \in ChatIds, limit \in Limits :
        LET top == TopForMonth(month_key, chat_id, limit)
            users == UsersOf(month_key, chat_id)
            listed == {top[i].user_id : i \in 1..Len(top)}
        IN  /\ Len(top) = IF limit < Cardinality(users)
                          THEN limit ELSE Cardinality(users)
            /\ listed \subseteq users
            /\ \A i \in 1..Len(top) :
                  top[i].count = StoredCount(month_key, chat_id, top[i].user_id)
            /\ \A i, j \in 1..Len(top) :
                  i < j => RanksBefore(top[i], top[j].user_id, top[j].count)
            /\ \A u \in users \ listed, i \in 1..Len(top) :
                  RanksBefore(top[i], u, StoredCount(month_key, chat_id, u))

\* C13 witness: in one conversation two users tie and are listed by
\* ascending id, a limit of 1 keeping the first; in another the user with
\* the larger id has the larger count and is listed first.
C13_Witness ==
    \E month_key, other_month \in MonthKeys, chat_id, other_chat \in ChatIds :
        /\ TopForMonth(month_key, chat_id, 2)
              = <<[user_id |-> 11, count |-> 1], [user_id |-> 12, count |-> 1]>>
        /\ TopForMonth(month_key, chat_id, 1) = <<[user_id |-> 11, count |-> 1]>>
        /\ TopForMonth(month_key, chat_id, 0) = << >>
        /\ TopForMonth(other_month, other_chat, 1)
              = <<[user_id |-> 12, count |-> 1]>>

\* The step leaves the file of the month, resp. its bucket in the cache,
\* as it was: what is loaded from it is then the same.
SameFile(month_key) ==
    /\ stats_storage_dir' = stats_storage_dir
    /\ (month_key \in DOMAIN stats_files') = (month_key \in DOMAIN stats_files)
    /\ GetOr(stats_files', month_key, None) = GetOr(stats_files, month_key, None)
SameCache(month_key) ==
    /\ (month_key \in DOMAIN counts_by_month')
          = (month_key \in DOMAIN counts_by_month)
    /\ GetOr(counts_by_month', month_key, None)
          = GetOr(counts_by_month, month_key, None)

FileAt(files, key) == IF key \in DOMAIN files THEN Some(files[key]) ELSE None

\* C16: an interrupted write of a bucket (a crash inside _save_date or
\* _save_month) leaves the durable unit of the key as it was before the
\* write: the complete previous bucket, or no unit when there was none.
C16_InterruptedWriteKeepsPrevious ==
    [][/\ ledger_call'.op = "crash_in_save_date" =>
            FileAt(vote_files', ledger_call'.key)
                = FileAt(vote_files, ledger_call'.key)
       /\ ledger_call'.op = "crash_in_save_month" =>
            FileAt(stats_files', ledger_call'.key)
                = FileAt(stats_files, ledger_call'.key)]_vars

\* A file that cannot be read as JSON, or whose parse raises.
UnreadableDate(file) == ~file.valid \/ ParseRaises(file.doc)
UnreadableMonth(file) == ~file.valid

\* The keys whose file is there, cannot be loaded and is not cached.
UnloadableDates ==
    {k \in DOMAIN vote_files :
        /\ vote_storage_dir # None /\ k \notin DOMAIN entries_by_date
        /\ UnreadableDate(vote_files[k])}
UnloadableMonths ==
    {k \in DOMAIN stats_files :
        /\ stats_storage_dir # None /\ k \notin DOMAIN counts_by_month
        /\ UnreadableMonth(stats_files[k])}

\* The bucket holds one entry, or one usage, and nothing else.
HoldsOneEntry(bucket) ==
    /\ Cardinality(DOMAIN bucket) = 1
    /\ \A c \in DOMAIN bucket : Len(bucket[c]) = 1
HoldsOneUsage(bucket) ==
    /\ Cardinality(DOMAIN bucket) = 1
    /\ \A c \in DOMAIN bucket :
          /\ Cardinality(DOMAIN bucket[c]) = 1
          /\ \A u \in DOMAIN bucket[c] : bucket[c][u] = 1

\* C17: when the file of a key is there but cannot be read or parsed, a
\* read of the key returns the empty list, record_entry and record_usage
\* start from an empty bucket (after them the bucket holds the one record),
\* and no ledger operation raises.
C17_UnreadableIsEmpty ==
    /\ [](/\ ~ledger_call.raised
          /\ \A k \in UnloadableDates :
                \A c \in ChatIds : EntriesForDate(k, c) = << >>
          /\ \A k \in UnloadableMonths :
                \A c \in ChatIds, n \in 0..MaxUsages : TopForMonth(k, c, n) = << >>)
    /\ [][/\ (ledger_call'.op = "record_entry"
                /\ ledger_call'.key \in UnloadableDates) =>
                HoldsOneEntry(entries_by_date'[ledger_call'.key])
          /\ (ledger_call'.op = "record_usage"
                /\ ledger_call'.key \in UnloadableMonths) =>
                HoldsOneUsage(counts_by_month'[ledger_call'.key])]_vars

\* get_entries_for_date has just read a file that does not load.
C17_Witness ==
    /\ ledger_call.op = "get_entries_for_date"
    /\ "read" \in ledger_call.io
    /\ ledger_call.key \in UnloadableDates

\* The valid file of an uncached key holds a record with an invalid field.
HasInvalidRecord(file) ==
    /\ file.valid
    /\ \E k \in DOMAIN file.doc :
          \E i \in 1..Len(file.doc[k]) : file.doc[k][i].bad # {}

\* C18: when a date bucket is loaded from a file that holds a record with
\* an invalid field, every valid record of the file is in the loaded bucket.
C18_InvalidRecordNeverAbortsLoad ==
    \A date_key \in DOMAIN vote_files :
        (/\ vote_storage_dir # None
         /\ date_key \notin DOMAIN entries_by_date
         /\ HasInvalidRecord(vote_files[date_key])) =>
            LET doc == vote_files[date_key].doc
            IN  \A k \in DOMAIN doc :
                  \A i \in 1..Len(doc[k]) :
                     doc[k][i].bad = {} =>
                        LET got == EntriesForDate(date_key, ParseInt(k))
                        IN  \E j \in 1..Len(got) :
                               got[j] = LoadEntry(ParseInt(k), doc[k][i])

\* What the cache alone says the entries, and the counts, of a key are.
CachedEntries(date_key, chat_id) ==
    GetOr(GetOr(entries_by_date, date_key, << >>), chat_id, << >>)
CachedCounts(month_key, chat_id) ==
    GetOr(GetOr(counts_by_month, month_key, << >>), chat_id, << >>)

\* The operations of the two services.
VoteOps == {"record_entry", "get_entries_for_date", "clear_date"}
StatsOps == {"record_usage", "get_top_for_month", "clear_month"}

\* C19: when the storage directory could not be created, the service stays
\* without persistence until the process ends, its operations touch no
\* file and do not raise, reads answer from memory, record_entry and
\* record_usage add to the bucket in memory and clear_date and clear_month
\* drop it.
C19_MemoryOnlyMode ==
    /\ [](/\ vote_storage_dir = None =>
                /\ ledger_call.io = {} /\ ~ledger_call.raised
                /\ \A k \in DateKeys, c \in ChatIds :
                      EntriesForDate(k, c) = CachedEntries(k, c)
          /\ stats_storage_dir = None =>
                /\ ledger_call.io = {} /\ ~ledger_call.raised
                /\ \A k \in MonthKeys, c \in ChatIds :
                      TopForMonth(k, c, MaxUsages)
                          = SortedItems(CachedCounts(k, c)))
    /\ [][/\ (vote_storage_dir = None /\ ledger_call'.op \in VoteOps) =>
                /\ vote_storage_dir' = None
                /\ vote_files' = vote_files
                /\ ledger_call'.op = "record_entry" =>
                      \E c \in DOMAIN entries_by_date'[ledger_call'.key] :
                         Len(entries_by_date'[ledger_call'.key][c])
                            = Len(CachedEntries(ledger_call'.key, c)) + 1
                /\ ledger_call'.op = "clear_date" =>
                      ledger_call'.key \notin DOMAIN entries_by_date'
          /\ (stats_storage_dir = None /\ ledger_call'.op \in StatsOps) =>
                /\ stats_storage_dir' = None
                /\ stats_files' = stats_files
                /\ ledger_call'.op = "record_usage" =>
                      \E c \in DOMAIN counts_by_month'[ledger_call'.key] :
                      \E u \in DOMAIN counts_by_month'[ledger_call'.key][c] :
                         counts_by_month'[ledger_call'.key][c][u]
                            = GetOr(CachedCounts(ledger_call'.key, c), u, 0) + 1
                /\ ledger_call'.op = "clear_month" =>
                      ledger_call'.key \notin DOMAIN counts_by_month']_vars

\* Without persistence, an entry was recorded for a date whose file from an
\* earlier process is still there, and the file does not hold what memory
\* holds.
C19_Witness ==
    /\ vote_storage_dir = None
    /\ ledger_call.op = "record_entry"
    /\ ledger_call.key \in DOMAIN vote_files
    /\ Intact(vote_files[ledger_call.key])
    /\ LoadBucket(vote_files[ledger_call.key].doc)
          # entries_by_date[ledger_call.key]

\* The steps that end a process or clear a key of the daily ledger, and of
\* the usage ledger.
DropsDateCache ==
    {"clear_date", "restart", "crash_in_save_date", "crash_in_save_month"}
DropsMonthCache ==
    {"clear_month", "restart", "crash_in_save_date", "crash_in_save_month"}

\* C20: a key with no file and no cached bucket reads as empty; the first
\* access to a key whose file loads puts the bucket in the cache; a cached
\* key stays cached until it is cleared or the process ends; and the
\* operations on a cached key do not look at the file and answer from the
\* cache, whatever has become of the file.
C20_ReadThroughCache ==
    /\ [](/\ \A k \in DateKeys, c \in ChatIds :
                /\ (k \notin DOMAIN entries_by_date /\ k \notin DOMAIN vote_files)
                      => EntriesForDate(k, c) = << >>
                /\ k \in DOMAIN entries_by_date =>
                      /\ EntriesForDate(k, c) = CachedEntries(k, c)
                      /\ LoadDateIo(entries_by_date, k) = {}
          /\ \A k \in MonthKeys, c \in ChatIds :
                /\ (k \notin DOMAIN counts_by_month /\ k \notin DOMAIN stats_files)
                      => TopForMonth(k, c, MaxUsages) = << >>
                /\ k \in DOMAIN counts_by_month =>
                      /\ TopForMonth(k, c, MaxUsages)
                            = SortedItems(CachedCounts(k, c))
                      /\ LoadMonthIo(counts_by_month, k) = {})
    /\ [][/\ \A k \in DateKeys :
                /\ (k \in DOMAIN entries_by_date /\ k \notin DOMAIN entries_by_date')
                      => ledger_call'.op \in DropsDateCache
                /\ (/\ ledger_call'.op = "get_entries_for_date"
                    /\ ledger_call'.key = k
                    /\ k \in DOMAIN vote_files /\ vote_storage_dir # None
                    /\ ~UnreadableDate(vote_files[k]))
                      => k \in DOMAIN entries_by_date'
                /\ (/\ ledger_call'.op \in {"get_entries_for_date", "record_entry"}
                    /\ ledger_call'.key = k
                    /\ k \in DOMAIN entries_by_date)
                      => ledger_call'.io \subseteq {"write"}
          /\ \A k \in MonthKeys :
                /\ (k \in DOMAIN counts_by_month /\ k \notin DOMAIN counts_by_month')
                      => ledger_call'.op \in DropsMonthCache
                /\ (/\ ledger_call'.op = "get_top_for_month"
                    /\ ledger_call'.key = k
                    /\ k \in DOMAIN stats_files /\ stats_storage_dir # None
                    /\ ~UnreadableMonth(stats_files[k]))
                      => k \in DOMAIN counts_by_month'
                /\ (/\ ledger_call'.op \in {"get_top_for_month", "record_usage"}
                    /\ ledger_call'.key = k
                    /\ k \in DOMAIN counts_by_month)
                      => ledger_call'.io \subseteq {"write"}]_vars

\* With persistence on, a read has just answered from the cache with the
\* entries of a key whose file has been removed behind the process.
C20_Witness ==
    /\ vote_storage_dir # None
    /\ ledger_call.op = "get_entries_for_date"
    /\ ledger_call.io = {}
    /\ ledger_call.key \in DOMAIN entries_by_date
    /\ ledger_call.key \notin DOMAIN vote_files
    /\ \E c \in ChatIds : EntriesForDate(ledger_call.key, c) # << >>

\* ------------------------------------- claims: the remaining operations

\* C21: get_inactive_chats returns the tracked conversations for which
\* is_chat_inactive is true, each once and none missing, and leaves every
\* last-activity record as it was.
C21_InactiveChatsExact ==
    /\ [](inactive_chats # None =>
            LET got == Get(inactive_chats)
            IN  /\ {got[i] : i \in 1..Len(got)}
                      = {c \in DOMAIN last_activity : IsChatInactive(c)}
                /\ \A i, j \in 1..Len(got) : got[i] = got[j] => i = j
                /\ \A c \in ChatIds \ DOMAIN last_activity :
                      \A i \in 1..Len(got) : got[i] # c)
    /\ [][inactive_chats' # None => last_activity' = last_activity]_vars

\* get_inactive_chats has returned one of two tracked conversations.
C21_Witness ==
    /\ inactive_chats # None
    /\ Len(Get(inactive_chats)) = 1
    /\ Cardinality(DOMAIN last_activity) = 2

SuppliedOffsets == {0, MskOffset, -MskOffset}

\* The same instant as dt, supplied at another offset.
AtOffset(dt, offset) == [instant |-> dt.instant, offset |-> offset]

\* The datetimes record_usage has been given, and now for the default.
UsageTimes == {Get(when) : when \in Whens \ {None}} \cup {NowMsk}

\* C23: the date key of an entry and the month key of a usage are the
\* calendar date and the year and month of the instant in the business
\* timezone, whatever offset the timestamp is supplied in; an instant just
\* after midnight (or the start of a month) there belongs to the new day
\* (month) although UTC is still in the previous one.
C23_KeysInBusinessTimezone ==
    /\ \A at \in DOMAIN vote_log :
          \A i \in 1..Len(vote_log[at]) :
             LET sent_at == vote_log[at][i].sent_at
             IN  /\ DateKey(sent_at) = DateOfDay(MskDay(sent_at.instant))
                 /\ \A offset \in SuppliedOffsets :
                       DateKey(AtOffset(sent_at, offset)) = DateKey(sent_at)
                 /\ vote_storage_dir # None =>
                       DateKey(sent_at) \in DOMAIN vote_files
    /\ \A dt \in UsageTimes :
          /\ MonthKey(dt) = MskMonth(dt.instant)
          /\ \A offset \in SuppliedOffsets :
                MonthKey(AtOffset(dt, offset)) = MonthKey(dt)
    /\ \A at \in DOMAIN stats_log :
          stats_storage_dir # None => at[1] \in DOMAIN stats_files

\* An entry sent at midnight of the second day in the business timezone,
\* supplied in UTC where it is still the first day, is in the bucket of the
\* second day.
C23_Witness ==
    \E at \in DOMAIN vote_log :
       \E i \in 1..Len(vote_log[at]) :
          LET sent_at == vote_log[at][i].sent_at
          IN  /\ sent_at.instant = MskMidnight(1)
              /\ sent_at.offset = 0
              /\ DateOf(sent_at) = DateOfDay(0)
              /\ DateOfDay(1) \in DOMAIN entries_by_date
              /\ at[2] \in DOMAIN entries_by_date[DateOfDay(1)]

\* The last step was a kill_random_command call in a group chat.
RouletteCalled ==
    /\ roulette_call.update.chat # None
    /\ Get(roulette_call.update.chat).type \in GroupTypes

\* A record under the given key is younger than the handler's cooldown of
\* one hour.
WithinCooldown(key) ==
    /\ key \in DOMAIN last_used
    /\ Minus(NowMsk, last_used[key]) < Hours(1)

\* C24: after mark_used('kill_random') without a chat id, a call of
\* kill_random_command by a non-administrator in a group chat within the
\* cooldown period is rejected with the cooldown reply and restricts no
\* member.
C24_GlobalMarkRejectsNonAdmin ==
    /\ RouletteCalled
    /\ ~roulette_call.is_admin
    /\ WithinCooldown(GetKey(KillRandom, None))
    => /\ roulette_call.reply = "cooldown"
       /\ roulette_call.restricted = None

\* C25: while the cooldown of kill_random is active in the chat, a call by
\* an administrator of the chat is not answered with the cooldown reply.
C25_AdminBypassesCooldown ==
    /\ RouletteCalled
    /\ roulette_call.is_admin
    /\ WithinCooldown(GetKey(KillRandom,
                              Some(Get(roulette_call.update.chat).id)))
    => roulette_call.reply # "cooldown"

\* The step just taken is the call of the rate limiter that limiter_call
\* describes.
LimiterStep(op) == limiter_call'.op = op /\ now' = now

\* C26: is_allowed(u) returns true iff u has no recorded request or at
\* least the cooldown has passed since the request recorded for u; an
\* allowed call records the current time for u, a blocked call changes
\* nothing, and the record of every other user stays as it was.
C26_IsAllowed ==
    [][LimiterStep("is_allowed") =>
         LET u == limiter_call'.user_id
             allowed == Get(limiter_call'.result)
         IN  /\ allowed <=> \/ u \notin DOMAIN last_request
                            \/ now - last_request[u] >= LimiterCooldown
             /\ allowed => last_request' = Put(last_request, u, now)
             /\ ~allowed => last_request' = last_request
             /\ limiter_call'.before = RequestOf(u)
             /\ \A v \in UserIds \ {u} : RequestOf(v)' = RequestOf(v)
      ]_vars

\* A request made exactly one cooldown after the user's last allowed one has
\* just been allowed, while another user's record is in the limiter.
C26_Witness ==
    /\ limiter_call.op = "is_allowed"
    /\ limiter_call.result = Some(TRUE)
    /\ limiter_call.before = Some(now - LimiterCooldown)
    /\ last_request[limiter_call.user_id] = now
    /\ \E v \in DOMAIN last_request : v # limiter_call.user_id

\* A user the limiter has no record of is allowed and has nothing to wait.
NoRecordNoWait ==
    \A u \in UserIds :
       u \notin DOMAIN last_request => IsAllowed(u) /\ RemainingCooldown(u) = 0

\* reset_user(u) leaves no record of u, however recent it was.
ResetForgets ==
    LimiterStep("reset_user") => limiter_call'.user_id \notin DOMAIN last_request'

\* The request just made was allowed.
AllowedStep ==
    LimiterStep("is_allowed") /\ limiter_call'.result = Some(TRUE)

\* C27 as stated: after reset_user(u) the next is_allowed(u) is true and
\* get_remaining_cooldown(u) is 0 until then; it is 0 for a user without a
\* record and strictly between 0 and the cooldown right after an allowed
\* request.
C27_ResetAndRemainingStrict ==
    /\ []NoRecordNoWait
    /\ [][/\ ResetForgets
          /\ \A u \in UserIds :
                AllowedStep /\ limiter_call'.user_id = u =>
                   /\ 0 < RemainingCooldown(u)'
                   /\ RemainingCooldown(u)' < LimiterCooldown
         ]_vars

\* C27: after reset_user(u) the next is_allowed(u) is true and
\* get_remaining_cooldown(u) is 0 until then; it is 0 for a user without a
\* record and, right after an allowed request, greater than 0 and at most
\* the cooldown.
C27_ResetAndRemaining ==
    /\ []NoRecordNoWait
    /\ [][/\ ResetForgets
          /\ \A u \in UserIds :
                AllowedStep /\ limiter_call'.user_id = u =>
                   /\ 0 < RemainingCooldown(u)'
                   /\ RemainingCooldown(u)' <= LimiterCooldown
         ]_vars

\* A user allowed at this very instant has just been reset.
C27_Witness ==
    /\ limiter_call.op = "reset_user"
    /\ limiter_call.before = Some(now)
    /\ limiter_call.user_id \notin DOMAIN last_request
    /\ IsAllowed(limiter_call.user_id)

\* No element of the list occurs in it twice.
NoDuplicates(list) == Cardinality(Elements(list)) = Len(list)

\* C28: after any sequence of track_user calls no user id is twice in a
\* chat's recent-users list, neither in the tracker's own list nor in
\* context.chat_data['recent_users'].
C28_NoUserTwice ==
    /\ \A chat_id \in DOMAIN recent_users :
          NoDuplicates(GetRecentUsers(chat_id))
    /\ \A chat_id \in DOMAIN chat_data : NoDuplicates(chat_data[chat_id])

\* A user already in both lists of the chat has just been tracked again,
\* after another user.
C28_Witness ==
    /\ tracker_call.tracked
    /\ LET chat_id == Get(tracker_call.update.chat).id
           user_id == Get(tracker_call.update.user).id
       IN  /\ Len(tracked_order[chat_id]) >= 2
           /\ recent_users[chat_id][1] = user_id
           /\ chat_data[chat_id][1] = user_id
           /\ tracked_order[chat_id][1] # user_id

\* Neither list of a chat holds more than MAX_RECENT_USERS users.
WithinLimit ==
    /\ \A chat_id \in DOMAIN recent_users :
          Len(recent_users[chat_id]) <= MAX_RECENT_USERS
    /\ \A chat_id \in DOMAIN chat_data :
          Len(chat_data[chat_id]) <= MAX_RECENT_USERS

KeepsLastAdded(before, after, user_id) ==
    IF user_id \in Elements(before) THEN after = before
    ELSE IF Len(before) < MAX_RECENT_USERS THEN after = Append(before, user_id)
    ELSE after = Append(Tail(before), user_id)

FirstWinner(run) ==
    CHOOSE i \in 1..Len(run.entries) :
        /\ IsWinner(run, i)
        /\ \A j \in 1..(i - 1) : ~IsWinner(run, j)

\* C30: when entries tie on both the reaction count and sent_at, the one
\* announced is the one recorded first: a later entry replaces the best so
\* far only with a strictly higher count, or with an equal count and a
\* strictly earlier sent_at.
C30_TiesKeepFirst ==
    \A chat_id \in DOMAIN announce_log :
        LET run == announce_log[chat_id] IN
        run.sent # None =>
           /\ AllCounted(run)
           /\ Get(run.sent).entry = run.entries[FirstWinner(run)]
           /\ Get(run.sent).count = Get(run.totals[FirstWinner(run)])

\* Two different photos of one conversation, sent at the same instant, got
\* the same reaction count, and the one recorded first is announced.
C30_Witness ==
    \E chat_id \in DOMAIN announce_log :
        LET run == announce_log[chat_id] IN
        /\ Len(run.entries) = 2
        /\ AllCounted(run)
        /\ run.totals[1] = run.totals[2]
        /\ run.entries[1].sent_at.instant = run.entries[2].sent_at.instant
        /\ run.entries[1].message_id # run.entries[2].message_id
        /\ run.sent # None
        /\ Get(run.sent).entry = run.entries[1]

\* ------------------------------------------- claims: the scheduled jobs

\* The photos with a file id the scan job sent to a conversation on a date
\* of the business timezone, in the order sent.
PhotosOf(date_key, chat_id) ==
    SelectSeq(scan_log.photos,
              LAMBDA p : p.chat_id = chat_id /\ DateKey(p.sent_at) = date_key)

\* The vote entry that stands for a sent photo.
EntryOfPhoto(p) ==
    [chat_id |-> p.chat_id, message_id |-> p.message_id,
     file_id |-> p.file_id, sent_at |-> AsTimezone(p.sent_at, MskOffset)]

\* The step changed the stored vote entries.
EntriesChanged ==
    entries_by_date' # entries_by_date \/ vote_files' # vote_files

\* C31: a daily vote entry is created only when a 'dead chat' photo was
\* sent: the entries held for a date and a conversation are, one for one
\* and in order, the photos with a file id the job sent to that
\* conversation on that date; and only the step in which send_photo
\* returns changes the entries: a failed fetch, a failed send and the text
\* notice record nothing.
C31_EntryPerSentPhoto ==
    /\ [](/\ DOMAIN entries_by_date \subseteq DateKeys
          /\ \A d \in DateKeys, c \in ChatIds :
                EntriesForDate(d, c) =
                    [i \in 1..Len(PhotosOf(d, c)) |-> EntryOfPhoto(PhotosOf(d, c)[i])])
    /\ [][EntriesChanged =>
            /\ scan_job.pc = "send_photo"
            /\ Len(scan_log'.notices) = Len(scan_log.notices) + 1
            /\ scan_log'.notices[Len(scan_log'.notices)].kind = "photo"
            /\ Len(scan_log'.photos) = Len(scan_log.photos) + 1]_vars

\* A run sent a text notice and a photo without a file id, to a
\* conversation that holds no entry, after an earlier photo was recorded.
C31_Witness ==
    /\ scan_log.photos # << >>
    /\ \E i \in 1..Len(scan_log.notices) : scan_log.notices[i].kind = "text"
    /\ \E j \in 1..Len(scan_log.notices) :
          /\ scan_log.notices[j].kind = "photo"
          /\ EntriesForDate(DateKey(NowMsk), scan_log.notices[j].chat_id) = << >>

\* ------------------------------------ claims: the member list with retries

\* C32: an attempt of get_chat_members that ends in FloodWait does not
\* count as a retry attempt: when the wait is over the call makes the
\* attempt with the same number again, with as many attempts left as
\* before.
C32_FloodWaitNotCounted ==
    [][members_call.pc = "flood_sleep" /\ members_call'.pc # "flood_sleep" =>
          /\ members_call'.pc = "connect"
          /\ members_call'.attempt = members_call.attempt]_vars

\* The list a complete enumeration of the chat gives under the filters of
\* the call.
ExpectedMemberIds(call) ==
    LET kept == SelectSeq(call.members, LAMBDA m : ~Skipped(call, m))
    IN  [i \in 1..Len(kept) |-> Get(kept[i].user).id]

NoticedChats(notices) == [i \in 1..Len(notices) |-> notices[i].chat_id]

\* The step sent a notice / gave up on a conversation.
NoticeSent == Len(scan_log'.notices) = Len(scan_log.notices) + 1
GaveUp == Len(scan_log'.failed) = Len(scan_log.failed) + 1

\* C34: in one run of check_inactive_chats each conversation of the list
\* receives at most one notice: a photo from an attempt before which fewer
\* than 5 failed, or the text after all 5 photo attempts failed.  A step of
\* the job calls mark_dead_chat_sent exactly when it sent a notice, for the
\* conversation of the notice.  When every send to a conversation failed
\* the job leaves its last activity as it was, so it stays inactive.
C34_OneNoticePerChat ==
    /\ [](/\ \A i, j \in 1..Len(scan_log.notices) :
                scan_log.notices[i].chat_id = scan_log.notices[j].chat_id => i = j
          /\ \A i \in 1..Len(scan_log.notices) :
                LET notice == scan_log.notices[i]
                IN  /\ notice.chat_id \in Elements(scan_log.scanned)
                    /\ notice.chat_id \notin Elements(scan_log.failed)
                    /\ notice.kind = "text" => notice.photo_failures = PhotoAttempts
                    /\ notice.kind = "photo" => notice.photo_failures < PhotoAttempts)
    /\ [][scan_job' # scan_job =>
            /\ NoticeSent =>
                  LET chat_id == CurrentChat
                  IN  /\ scan_log'.notices[Len(scan_log'.notices)].chat_id = chat_id
                      /\ last_activity' = Put(last_activity, chat_id, NowMsk)
                      /\ dead_chat_sent_at' = Put(dead_chat_sent_at, chat_id, now)
            /\ ~NoticeSent => UNCHANGED activityVars
            /\ GaveUp =>
                  /\ scan_log'.failed[Len(scan_log'.failed)] = CurrentChat
                  /\ scan_job.pc = "send_message"
                  /\ \A chat_id \in ChatIds :
                        chat_id = CurrentChat =>
                            (IsChatInactive(chat_id) <=> IsChatInactive(chat_id)')]_vars

\* A run sent the text notice to one conversation and failed every send to
\* another, which is still inactive.
C34_Witness ==
    /\ \E i \in 1..Len(scan_log.notices) : scan_log.notices[i].kind = "text"
    /\ \E i \in 1..Len(scan_log.failed) : IsChatInactive(scan_log.failed[i])

\* C37: a notice is sent only to a conversation that is still inactive at
\* the moment of sending: activity recorded after the scan computed its
\* list prevents the notice.
C37_NoticeOnlyIfStillInactive ==
    \A i \in 1..Len(scan_log.notices) : scan_log.notices[i].inactive

\* ------------------------------------------- claims: the roulette's mute

\* C35: kill_random_command starts the cooldown of the chat exactly when
\* it muted a member: a call that restricted nobody leaves the cooldown
\* records as they were, and a call whose restrict_member succeeded has
\* called mark_used for the chat when it returns.
C35_CooldownIffMuted ==
    [][roulette_call' # NoRouletteCall =>
          \A chat_id \in RouletteChatIds :
              chat_id = Get(roulette_call'.update.chat).id =>
                  IF roulette_call'.restricted = None
                  THEN last_used' = last_used
                  ELSE last_used' = LastUsedAfterMark(KillRandom, Some(chat_id))]_vars

\* C36: the member kill_random_command mutes is one of the candidates, is
\* no administrator of the chat and is not the bot, whether the candidates
\* are the members the client session lists or the chat's recent users;
\* when every candidate is an administrator or the bot nobody is muted.
C36_NeverAdminNorBot ==
    /\ roulette_call.restricted # None =>
          /\ roulette_call.candidates # None
          /\ Get(roulette_call.restricted) \in Elements(Get(roulette_call.candidates))
          /\ Get(roulette_call.restricted) \notin roulette_call.admin_ids
          /\ Get(roulette_call.restricted) # BotId
    /\ roulette_call.candidates # None =>
          ((\A uid \in Elements(Get(roulette_call.candidates)) :
                uid \in roulette_call.admin_ids \/ uid = BotId)
           => roulette_call.restricted = None)

\* A member was muted out of candidates that hold an administrator and
\* the bot.
C36_Witness ==
    /\ roulette_call.restricted # None
    /\ BotId \in Elements(Get(roulette_call.candidates))
    /\ Elements(Get(roulette_call.candidates)) \cap roulette_call.admin_ids # {}

\* C38: no daily vote entry is destroyed unscored: the entries that the
\* clear_date of an announcement run removed were all read and scored by
\* that run.
C38_NoEntryDestroyedUnscored ==
    announce_job.destroyed \subseteq announce_job.scored

\* ------------------------------------ claims: atomicity on the event loop

\* The callback is inside a record operation: the call has been made and
\* has not returned.
Recording(t) ==
    /\ event_loop.ops[t] # None
    /\ Get(event_loop.ops[t]).op \in {"record_usage", "record_entry"}

\* C39: record_usage and record_entry each execute atomically with respect
\* to every other handler and job: while a callback is between the call
\* and the return of one of them (lazy load, mutation, durable write), no
\* other callback begins, continues or completes a ledger operation, and
\* the ledgers change only by that callback's own statements.
C39_RecordsAreAtomic ==
    /\ [](\A t \in Callbacks :
             Recording(t) =>
                /\ event_loop.running = Some(t)
                /\ \A u \in Callbacks \ {t} : event_loop.ops[u] = None)
    /\ [][\A t \in Callbacks :
             Recording(t) =>
                /\ \A u \in Callbacks \ {t} : event_loop'.ops[u] = event_loop.ops[u]
                /\ event_loop'.ops[t] # event_loop.ops[t]]_vars

\* The job is at the durable write of record_entry, after a usage and an
\* entry were recorded.
C39_Witness ==
    /\ event_loop.ops["job"] # None
    /\ Get(event_loop.ops["job"]).op = "record_entry"
    /\ Get(event_loop.ops["job"]).stage = "write"
    /\ stats_log # << >>
    /\ vote_log # << >>

\* -------------------------------------- claims: the shape of the ledger

\* The date, in the business timezone, of an entry's sent_at.
DateOfEntry(entry) == DateOfDay(MskDay(entry.sent_at.instant))

\* C40: every entry held under a date key and a conversation, recorded in
\* this process or loaded from storage, has that conversation's id and a
\* sent_at of that date in the business timezone.
C40_FiledByDateAndChat ==
    \A d \in DOMAIN entries_by_date :
        \A c \in DOMAIN entries_by_date[d] :
            \A i \in 1..Len(entries_by_date[d][c]) :
                LET entry == entries_by_date[d][c][i]
                IN  /\ entry.chat_id = c
                    /\ DateOfEntry(entry) = d

\* The entry was held at the same place before the step.
HeldBefore(d, c, i, entry) ==
    /\ d \in DOMAIN entries_by_date
    /\ c \in DOMAIN entries_by_date[d]
    /\ i <= Len(entries_by_date[d][c])
    /\ entries_by_date[d][c][i] = entry

\* The step loaded the entry from a persisted record whose sent_at does not
\* parse, and gave it the time of the load; or from a record that carries
\* another date already, a defaulted entry having been written back.
LoadedOffDate(d, c, i, entry) ==
    /\ d \notin DOMAIN entries_by_date
    /\ d \in DOMAIN vote_files
    /\ vote_files[d].valid
    /\ Str(c) \in DOMAIN vote_files[d].doc
    /\ i <= Len(vote_files[d].doc[Str(c)])
    /\ LET record == vote_files[d].doc[Str(c)][i]
       IN  IF "sent_at" \in record.bad
           THEN entry.sent_at = NowMsk
           ELSE /\ entry.sent_at.instant = FromIsoFormat(record.sent_at).instant
                /\ DateOfDay(MskDay(FromIsoFormat(record.sent_at).instant)) # d

\* C40, amended: every entry held under a date key and a conversation has
\* that conversation's id.  An entry enters a bucket with a sent_at of the
\* bucket's date, except when it is loaded from a persisted record whose
\* sent_at does not parse: it then carries the time of the load, whatever
\* its date, and is written back and loaded again as such.
C40_FiledUnlessDefaulted ==
    /\ [](\A d \in DOMAIN entries_by_date :
             \A c \in DOMAIN entries_by_date[d] :
                 \A i \in 1..Len(entries_by_date[d][c]) :
                     entries_by_date[d][c][i].chat_id = c)
    /\ [][\A d \in DOMAIN entries_by_date' :
             \A c \in DOMAIN entries_by_date'[d] :
                 \A i \in 1..Len(entries_by_date'[d][c]) :
                     \A entry \in {entries_by_date'[d][c][i]} :
                         \/ DateOfEntry(entry) = d
                         \/ HeldBefore(d, c, i, entry)
                         \/ LoadedOffDate(d, c, i, entry)]_vars

\* A bucket holds an entry of its own date, recorded in this process,
\* after an entry loaded with the time of the load, of another date.
C40_Witness ==
    \E d \in DOMAIN entries_by_date :
        \E c \in DOMAIN entries_by_date[d] :
            \E i, j \in 1..Len(entries_by_date[d][c]) :
                /\ i < j
                /\ DateOfEntry(entries_by_date[d][c][i]) # d
                /\ DateOfEntry(entries_by_date[d][c][j]) = d

====
